---- MODULE Spec2Model ----
(***************************************************************************)
(* A model of the stream_tagger tag store (stream_tagger/tags.py).         *)
(*                                                                         *)
(* TagDatabase keeps one sqlite table, `tags`, with the columns            *)
(*   msg_id INT PRIMARY KEY, guild, timestamp_, message, votes, author,    *)
(*   hidden, hierarchy.                                                    *)
(* The table is the variable `table`, a set of rows.  Every method of      *)
(* TagDatabase is one action, named as in the source.  `last` holds what   *)
(* the most recent call was and what its caller observed: the exception    *)
(* raised (err), the cursor's rowcount and the value returned (ret).       *)
(*                                                                         *)
(* Times are given to the store as floats (time.time(), a message's        *)
(* created_at.timestamp() plus an offset) and converted with int().  A     *)
(* float argument is modelled as a number of half seconds h, standing for  *)
(* h/2, so that int() has something to truncate.  Stored timestamps are    *)
(* whole seconds.                                                          *)
(***************************************************************************)
EXTENDS Integers, Sequences, FiniteSets, TLC

----------------------------------------------------------------------------
(* Bounds of the model. *)

\* float arguments are h/2 for h in -1..MaxHalf
MaxHalf == 2
\* increment_vote is not called once a tag's votes would leave -MaxVotes..MaxVotes
MaxVotes == 1
\* in SpecVotes: at most MaxVoteCalls increments and MaxVoteCalls decrements are counted per tag
MaxVoteCalls == 2
\* LIMIT arguments are 0..MaxLimit
MaxLimit == 2
\* hierarchy arguments are 0..MaxHier
MaxHier == 1

MsgIds == {1, 2}
Guilds == {1, 2}
Authors == {0, 1}
Texts == {"x", "y"}
Hiers == 0 .. MaxHier
Halves == (-1) .. MaxHalf
Limits == 0 .. MaxLimit
Orders == {"ASC", "DESC"}
\* an optional author_id: {} is None, {a} is the integer a
OptAuthors == {{}} \cup {{a} : a \in Authors}
\* in Spec, where a message comes from: its guild and its author
Sources == {[guild |-> 1, author |-> 0], [guild |-> 2, author |-> 1]}

VARIABLES
    table,  \* the rows of the sqlite table `tags`
    last,   \* the most recent call: [op, args, err, rowcount, ret]
    live,   \* history: ids with a successful tag() not followed by a remove()
    ups,    \* history (SpecVotes): per id, increment_vote(+1) calls since it was created
    downs,  \* history (SpecVotes): per id, increment_vote(-1) calls since it was created
    assigned_table_names,  \* utils.assigned_table_names: the table names bound in this process
    instances,  \* the store objects constructed in this process: [table_name, shape]
    pd,         \* a PersistentDict: [table_name, cache_duration, _store, _cache_valid, _last_cache]
    pd_sql,     \* the rows (key_ PRIMARY KEY, value_) of the PersistentDict's table
    now,        \* time.monotonic()
    selects,    \* history: how often _populate_from_sql has read the PersistentDict's table
    psd,        \* a PersistentSetDict: [table_name, depth, dump_v, _store, _cache_valid]
    psd_sql,    \* the rows (key_0.., value_) of the PersistentSetDict's table, with their number
    wrote,      \* history: per key, the last successful write to it by the store object
    attempt,    \* history (SpecRetry): the call being made and how often it has been executed
    pending,    \* the handlers suspended at an await, each with its arguments
    private,    \* history: the channels that the last set_private on them marked private
    last_dump,  \* Tagging.last_dump: per channel id, the messages of its last dump
    deleted,    \* history: per message that the bot has sent, how often it was deleted
    schema,     \* the database file: whether it has the table tags, with the column hierarchy, its user_version,
                \* and whether a TagDatabase is connected to it
    holodex     \* streams.py: the semaphore of holodex_req with its waiters, _exp_backoff, and
                \* history: what each call of holodex_req returned

\* The state of utils.py: the registry of table names and the two kinds of store.
cached == <<assigned_table_names, instances, pd, pd_sql, now, selects, psd, psd_sql, wrote, attempt, pending, private, last_dump, deleted, schema, holodex>>

vars == <<table, last, live, ups, downs, cached>>

----------------------------------------------------------------------------
(* Helpers *)

\* Python's int() of the float h/2: truncation toward zero.
int(h) == IF h >= 0 THEN h \div 2 ELSE -((-h) \div 2)

\* A whole number of seconds s as a float argument.
Whole(s) == 2 * s

\* Python truthiness of an `int | None` argument: None and 0 are falsy.
Truthy(opt) == opt # {} /\ opt # {0}

\* No call is in progress: the previous caller has taken its outcome.
Idle == [op |-> "idle", args |-> <<>>, err |-> "none", rowcount |-> -1, ret |-> <<>>]

\* What the caller sees when a call returns None without raising.
Done(op, args, n) ==
    [op |-> op, args |-> args, err |-> "none", rowcount |-> n, ret |-> <<>>]

\* The rows WHERE msg_id = ?
WhereMsgId(msg_id) == {r \in table : r.msg_id = msg_id}

\* Tag_t: the tuple get_tags returns for a row.
Tag_t(r) ==
    [ts |-> r.timestamp_, text |-> r.message, vote |-> r.votes,
     msg_id |-> r.msg_id, hier |-> r.hierarchy]

----------------------------------------------------------------------------
(* TagDatabase *)

\* No store object of utils.py has been constructed.
NoInstance == [table_name |-> "none"]

\* A table without rows.
NoRows == [r \in {} |-> 0]

\* No call is being retried.
NoAttempt == [n |-> 0, op |-> "idle", args |-> <<>>]

InitCached ==
    /\ assigned_table_names = {}
    /\ instances = {}
    /\ pd = NoInstance
    /\ pd_sql = {}
    /\ now = 0
    /\ selects = 0
    /\ psd = NoInstance
    /\ psd_sql = NoRows
    /\ wrote = NoRows
    /\ attempt = NoAttempt
    /\ pending = {}
    /\ private = {}
    /\ last_dump = <<>>
    /\ deleted = <<>>
    /\ schema = [exists |-> TRUE, hierarchy |-> TRUE, user_version |-> 2, con |-> TRUE]
    /\ holodex = [sem |-> 1, waiters |-> <<>>, backoffs |-> 0, cooldowns |-> 0, returned |-> <<>>]

InitTags ==
    /\ table = {}
    /\ last = Idle
    /\ live = {}
    /\ ups = [i \in MsgIds |-> 0]
    /\ downs = [i \in MsgIds |-> 0]

Init == InitTags /\ InitCached

\* tag as INSERT OR REPLACE: a stored msg_id is overwritten instead of refused.
tag_replace(msg_id, guild_id, time, text, author_id, hidden, hierarchy) ==
    LET row == [msg_id |-> msg_id, guild |-> guild_id, timestamp_ |-> int(time),
                message |-> text, votes |-> 0, author |-> author_id,
                hidden |-> hidden, hierarchy |-> hierarchy]
    IN  /\ table' = (table \ WhereMsgId(msg_id)) \cup {row}
        /\ last' = Done("tag", [msg_id |-> msg_id], 1)

\* TagDatabase.tag: INSERT INTO tags VALUES (msg_id, guild, int(time), text, 0, author, hidden, hierarchy).
\* msg_id is the PRIMARY KEY: a second row with the same msg_id makes execute()
\* raise sqlite3.IntegrityError and nothing is inserted.
tag(msg_id, guild_id, time, text, author_id, hidden, hierarchy) ==
    LET row == [msg_id |-> msg_id, guild |-> guild_id, timestamp_ |-> int(time),
                message |-> text, votes |-> 0, author |-> author_id,
                hidden |-> hidden, hierarchy |-> hierarchy]
        args == [msg_id |-> msg_id]
    IN  IF WhereMsgId(msg_id) # {}
        THEN /\ table' = table
             /\ last' = [op |-> "tag", args |-> args, err |-> "IntegrityError",
                         rowcount |-> -1, ret |-> <<>>]
        ELSE /\ table' = table \cup {row}
             /\ last' = Done("tag", args, 1)

\* update_text that also resets the votes.
update_text_votes(msg_id, text, h) ==
    /\ table' = {IF r.msg_id = msg_id
                 THEN [r EXCEPT !.message = text, !.hierarchy = h, !.votes = 0]
                 ELSE r : r \in table}
    /\ last' = Done("update_text", [msg_id |-> msg_id], Cardinality(WhereMsgId(msg_id)))

\* TagDatabase.update_text: UPDATE tags SET message=?, hierarchy=? WHERE ?=msg_id
update_text(msg_id, text, h) ==
    /\ table' = {IF r.msg_id = msg_id
                 THEN [r EXCEPT !.message = text, !.hierarchy = h]
                 ELSE r : r \in table}
    /\ last' = Done("update_text", [msg_id |-> msg_id], Cardinality(WhereMsgId(msg_id)))

\* update_time without its WHERE clause: every row is updated.
update_time_all(msg_id, time) ==
    /\ table' = {[r EXCEPT !.timestamp_ = int(time)] : r \in table}
    /\ last' = Done("update_time", [msg_id |-> msg_id], Cardinality(WhereMsgId(msg_id)))

\* TagDatabase.update_time: UPDATE tags SET timestamp_=int(time) WHERE ?=msg_id
update_time(msg_id, time) ==
    /\ table' = {IF r.msg_id = msg_id
                 THEN [r EXCEPT !.timestamp_ = int(time)]
                 ELSE r : r \in table}
    /\ last' = Done("update_time", [msg_id |-> msg_id], Cardinality(WhereMsgId(msg_id)))

\* increment_vote that keeps the votes from going below zero.
increment_vote_clamped(msg_id, add) ==
    /\ table' = {IF r.msg_id = msg_id
                 THEN [r EXCEPT !.votes = IF @ + add < 0 THEN 0 ELSE @ + add]
                 ELSE r : r \in table}
    /\ last' = Done("increment_vote", [msg_id |-> msg_id, add |-> add],
                    Cardinality(WhereMsgId(msg_id)))

\* TagDatabase.increment_vote: UPDATE tags SET votes = votes+? WHERE msg_id = ?
increment_vote(msg_id, add) ==
    /\ table' = {IF r.msg_id = msg_id
                 THEN [r EXCEPT !.votes = @ + add]
                 ELSE r : r \in table}
    /\ last' = Done("increment_vote", [msg_id |-> msg_id, add |-> add],
                    Cardinality(WhereMsgId(msg_id)))

\* remove that deletes nothing.
remove_nothing(msg_id) ==
    /\ table' = table
    /\ last' = Done("remove", [msg_id |-> msg_id], Cardinality(WhereMsgId(msg_id)))

\* remove with its condition inverted: DELETE FROM tags WHERE msg_id != ?
remove_others(msg_id) ==
    /\ table' = WhereMsgId(msg_id)
    /\ last' = Done("remove", [msg_id |-> msg_id], Cardinality(WhereMsgId(msg_id)))

\* TagDatabase.remove: DELETE FROM tags WHERE msg_id = ?
remove(msg_id) ==
    /\ table' = table \ WhereMsgId(msg_id)
    /\ last' = Done("remove", [msg_id |-> msg_id], Cardinality(WhereMsgId(msg_id)))

\* TagDatabase.__contains__: bool(SELECT * FROM tags WHERE msg_id=? ... fetchone())
Contains(msg_id) == WhereMsgId(msg_id) # {}

contains(msg_id) ==
    /\ table' = table
    /\ last' = [op |-> "contains", args |-> [msg_id |-> msg_id], err |-> "none",
                rowcount |-> -1, ret |-> Contains(msg_id)]

\* The WHERE clause with an exclusive window: timestamp_ > start AND timestamp_ < end.
Selected_exclusive(guild_id, start, end, author_id, show_hidden) ==
    {r \in table :
        /\ r.guild = guild_id
        /\ int(start) < r.timestamp_
        /\ r.timestamp_ < int(end)
        /\ (Truthy(author_id) => {r.author} = author_id)
        /\ (r.hidden = FALSE \/ r.hidden = show_hidden)}

\* The WHERE clause without its condition on hidden.
Selected_hidden(guild_id, start, end, author_id, show_hidden) ==
    {r \in table :
        /\ r.guild = guild_id
        /\ int(start) <= r.timestamp_
        /\ r.timestamp_ <= int(end)
        /\ (Truthy(author_id) => {r.author} = author_id)}

\* The WHERE clause of get_tags: guild=? AND timestamp_ BETWEEN int(start) AND int(end)
\* [AND author=?] AND (hidden IS FALSE OR hidden=show_hidden).
\* The branch with `AND author=?` is taken `if author_id:`.
Selected(guild_id, start, end, author_id, show_hidden) ==
    {r \in table :
        /\ r.guild = guild_id
        /\ int(start) <= r.timestamp_
        /\ r.timestamp_ <= int(end)
        /\ (Truthy(author_id) => {r.author} = author_id)
        /\ (r.hidden = FALSE \/ r.hidden = show_hidden)}

\* ORDER BY timestamp_ that ignores the order asked for: always ascending.
OrderBy_asc(S, order) ==
    {f \in [1 .. Cardinality(S) -> S] :
        /\ \A i, j \in 1 .. Cardinality(S) : i # j => f[i] # f[j]
        /\ \A i, j \in 1 .. Cardinality(S) :
              i < j => f[i].timestamp_ <= f[j].timestamp_}

\* ORDER BY timestamp_ ASC|DESC: every arrangement of the rows S that is sorted by
\* timestamp_; SQL leaves the order of rows with equal timestamp_ open.
OrderBy(S, order) ==
    {f \in [1 .. Cardinality(S) -> S] :
        /\ \A i, j \in 1 .. Cardinality(S) : i # j => f[i] # f[j]
        /\ \A i, j \in 1 .. Cardinality(S) :
              i < j => IF order = "ASC"
                       THEN f[i].timestamp_ <= f[j].timestamp_
                       ELSE f[i].timestamp_ >= f[j].timestamp_}

\* LIMIT {limit}: the first `limit` rows.
Limit(rows, limit) ==
    SubSeq(rows, 1, IF limit < Len(rows) THEN limit ELSE Len(rows))

\* The lists get_tags may return.
Fetchall(guild_id, start, end, author_id, limit, show_hidden, order) ==
    {[i \in 1 .. Len(Limit(f, limit)) |-> Tag_t(f[i])] :
        f \in OrderBy(Selected(guild_id, start, end, author_id, show_hidden), order)}

\* TagDatabase.get_tags
get_tags(guild_id, start, end, author_id, limit, show_hidden, order) ==
    /\ table' = table
    /\ \E res \in Fetchall(guild_id, start, end, author_id, limit, show_hidden, order) :
          last' = [op |-> "get_tags",
                   args |-> [guild_id |-> guild_id, start |-> start, end |-> end,
                             author_id |-> author_id, limit |-> limit,
                             show_hidden |-> show_hidden, order |-> order],
                   err |-> "none", rowcount |-> -1, ret |-> res]

----------------------------------------------------------------------------
(* The callers: any call of a method with any arguments of the bounded sets. *)

\* History of the calls made so far: which ids were created and not removed since.
Created(msg_id) ==
    /\ live' = IF last'.err = "none" THEN live \cup {msg_id} ELSE live
    /\ UNCHANGED <<ups, downs, cached>>

Removed(msg_id) ==
    /\ live' = live \ {msg_id}
    /\ UNCHANGED <<ups, downs, cached>>

TagCall ==
    /\ last.op = "idle"
    /\ \E msg_id \in MsgIds, src \in Sources, time \in Halves, text \in Texts,
          hidden \in BOOLEAN, hierarchy \in Hiers :
        /\ tag(msg_id, src.guild, time, text, src.author, hidden, hierarchy)
        /\ Created(msg_id)

UpdateTextCall ==
    /\ last.op = "idle"
    /\ \E msg_id \in MsgIds, text \in Texts, h \in Hiers :
        /\ update_text(msg_id, text, h)
        /\ UNCHANGED <<live, ups, downs, cached>>

UpdateTimeCall ==
    /\ last.op = "idle"
    /\ \E msg_id \in MsgIds, time \in Halves :
        /\ update_time(msg_id, time)
        /\ UNCHANGED <<live, ups, downs, cached>>

IncrementVoteCall ==
    /\ last.op = "idle"
    /\ \E msg_id \in MsgIds, add \in {1, -1} :
        /\ \A r \in WhereMsgId(msg_id) :
              r.votes + add <= MaxVotes /\ r.votes + add >= -MaxVotes
        /\ increment_vote(msg_id, add)
        /\ UNCHANGED <<live, ups, downs, cached>>

RemoveCall ==
    /\ last.op = "idle"
    /\ \E msg_id \in MsgIds :
        /\ remove(msg_id)
        /\ Removed(msg_id)

ContainsCall ==
    /\ last.op = "idle"
    /\ \E msg_id \in MsgIds :
        /\ contains(msg_id)
        /\ UNCHANGED <<live, ups, downs, cached>>

\* The methods are synchronous: a call runs to its end and its caller takes the
\* outcome before the next call starts.
Return ==
    /\ last.op # "idle"
    /\ last' = Idle
    /\ UNCHANGED <<table, live, ups, downs, cached>>

Next ==
    \/ TagCall
    \/ UpdateTextCall
    \/ UpdateTimeCall
    \/ IncrementVoteCall
    \/ RemoveCall
    \/ ContainsCall
    \/ Return

Spec == Init /\ [][Next]_vars

----------------------------------------------------------------------------
(* Queries: the store is filled, shifted and emptied, and queried with every  *)
(* argument.  Text and hierarchy play no part in a query and are held fixed.  *)

TagCallQuery ==
    /\ last.op = "idle"
    /\ \E msg_id \in MsgIds, guild_id \in Guilds, time \in Halves,
       author_id \in Authors, hidden \in BOOLEAN :
        /\ tag(msg_id, guild_id, time, "x", author_id, hidden, 0)
        /\ Created(msg_id)

GetTagsCall ==
    /\ last.op = "idle"
    /\ \E guild_id \in Guilds, start \in Halves, end \in Halves, author_id \in OptAuthors,
       limit \in Limits, show_hidden \in BOOLEAN, order \in Orders :
        /\ get_tags(guild_id, start, end, author_id, limit, show_hidden, order)
        /\ UNCHANGED <<live, ups, downs, cached>>

NextQuery ==
    \/ TagCallQuery
    \/ UpdateTimeCall
    \/ RemoveCall
    \/ GetTagsCall
    \/ Return

SpecQuery == Init /\ [][NextQuery]_vars

----------------------------------------------------------------------------
(* Votes: tags are created and removed, and +1 and -1 votes are counted.      *)

TagCallVotes ==
    /\ last.op = "idle"
    /\ \E msg_id \in MsgIds :
        /\ tag(msg_id, 1, 0, "x", 1, FALSE, 0)
        /\ live' = IF last'.err = "none" THEN live \cup {msg_id} ELSE live
        /\ UNCHANGED <<ups, downs, cached>>

IncrementVoteCounted ==
    /\ last.op = "idle"
    /\ \E msg_id \in MsgIds, add \in {1, -1} :
        /\ IF add = 1 THEN ups[msg_id] < MaxVoteCalls ELSE downs[msg_id] < MaxVoteCalls
        /\ increment_vote(msg_id, add)
        /\ ups' = IF add = 1 /\ Contains(msg_id)
                  THEN [ups EXCEPT ![msg_id] = @ + 1] ELSE ups
        /\ downs' = IF add = -1 /\ Contains(msg_id)
                    THEN [downs EXCEPT ![msg_id] = @ + 1] ELSE downs
        /\ UNCHANGED <<live, cached>>

RemoveCallVotes ==
    /\ last.op = "idle"
    /\ \E msg_id \in MsgIds :
        /\ remove(msg_id)
        /\ live' = live \ {msg_id}
        /\ ups' = [ups EXCEPT ![msg_id] = 0]
        /\ downs' = [downs EXCEPT ![msg_id] = 0]
        /\ UNCHANGED cached

NextVotes ==
    \/ TagCallVotes
    \/ IncrementVoteCounted
    \/ RemoveCallVotes
    \/ Return

SpecVotes == Init /\ [][NextVotes]_vars

----------------------------------------------------------------------------
(* Properties of the tag store.                                               *)

\* The ids of the stored rows.
StoredIds == {r.msg_id : r \in table}

\* The stored rows a returned tuple stands for.
RowsOf(t) == {r \in table : r.msg_id = t.msg_id}

\* The ids of the returned tuples.
ReturnedIds == {last.ret[i].msg_id : i \in DOMAIN last.ret}

\* A float argument that is a whole number of seconds.
IsWhole(h) == h % 2 = 0

\* C1: membership follows the net effect of the calls.  In every state an id is
\* contained exactly when a tag() of it succeeded and no remove() of it followed
\* (so update_text, update_time and increment_vote, which leave that history as it
\* is, never change membership); __contains__ returns just that; and tag() fails
\* only for an id that is live, so that a removed id can be created again.
C1_ContainsNetEffect ==
    /\ \A id \in MsgIds : Contains(id) <=> id \in live
    /\ last.op = "contains" => last.ret = (last.args.msg_id \in live)
    /\ (last.op = "tag" /\ last.err # "none") => last.args.msg_id \in live

\* A remove() has deleted a row: its id is no longer contained, another one is.
C1_Witness ==
    /\ last.op = "remove"
    /\ last.rowcount = 1
    /\ ~Contains(last.args.msg_id)
    /\ table # {}

\* C2: get_tags returns only tags of the guild asked for, with int(start) <= t <=
\* int(end); for bounds that are whole seconds (the contract of the query) that is
\* start <= t <= end.  Both bounds are inclusive: with no author filter, hidden
\* tags shown and the limit not reached, every tag of the guild with t = start or
\* t = end of a whole-second window is returned.
C2_QueryWindow ==
    last.op = "get_tags" =>
        LET a == last.args IN
        /\ \A i \in DOMAIN last.ret :
              /\ RowsOf(last.ret[i]) # {}
              /\ \A r \in RowsOf(last.ret[i]) :
                    /\ r.guild = a.guild_id
                    /\ last.ret[i].ts = r.timestamp_
                    /\ int(a.start) <= r.timestamp_
                    /\ r.timestamp_ <= int(a.end)
                    /\ (IsWhole(a.start) /\ IsWhole(a.end)) =>
                          (a.start <= Whole(r.timestamp_) /\ Whole(r.timestamp_) <= a.end)
        /\ (/\ IsWhole(a.start) /\ IsWhole(a.end) /\ a.start <= a.end
            /\ a.author_id = {} /\ a.show_hidden /\ Len(last.ret) < a.limit) =>
              \A r \in table :
                  (/\ r.guild = a.guild_id
                   /\ (Whole(r.timestamp_) = a.start \/ Whole(r.timestamp_) = a.end))
                  => r.msg_id \in ReturnedIds

\* A query over the window [1, 1] returned a tag at t = 1 and left out one at t = 0
\* and one of the other guild.
C2_Witness ==
    /\ last.op = "get_tags"
    /\ last.args.start = Whole(1) /\ last.args.end = Whole(1)
    /\ Len(last.ret) = 1
    /\ last.ret[1].ts = 1
    /\ Cardinality(table) = 2
    /\ \E r \in table : r.timestamp_ = 0 \/ r.guild # last.args.guild_id

\* C3: with show_hidden false no hidden tag is returned; with show_hidden true
\* hidden and other tags are returned alike: with no author filter and the limit
\* not reached, the result is every tag of the guild in the window.
C3_Hidden ==
    last.op = "get_tags" =>
        LET a == last.args IN
        /\ ~a.show_hidden =>
              \A i \in DOMAIN last.ret : \A r \in RowsOf(last.ret[i]) : r.hidden = FALSE
        /\ (a.show_hidden /\ a.author_id = {} /\ Len(last.ret) < a.limit) =>
              ReturnedIds = {r.msg_id : r \in
                  {x \in table : /\ x.guild = a.guild_id
                                 /\ int(a.start) <= x.timestamp_
                                 /\ x.timestamp_ <= int(a.end)}}

\* A query without show_hidden left a hidden tag of the window out.
C3_Witness ==
    /\ last.op = "get_tags"
    /\ ~last.args.show_hidden
    /\ last.args.author_id = {}
    /\ Len(last.ret) = 1
    /\ last.args.limit = MaxLimit
    /\ \E r \in table :
          /\ r.hidden
          /\ r.guild = last.args.guild_id
          /\ int(last.args.start) <= r.timestamp_
          /\ r.timestamp_ <= int(last.args.end)

\* A query with show_hidden returned a hidden tag and one that is not hidden.
C3_WitnessShown ==
    /\ last.op = "get_tags"
    /\ last.args.show_hidden
    /\ \E i, j \in DOMAIN last.ret :
          /\ \E r \in RowsOf(last.ret[i]) : r.hidden
          /\ \E r \in RowsOf(last.ret[j]) : ~r.hidden

\* C4: the result is the first min(limit, n) of the n matching tags in timestamp
\* order: it has min(limit, n) rows, no row twice, each a matching tag; its
\* timestamps do not decrease (ASC) or do not increase (DESC); and a matching tag
\* that is left out is not before (ASC) or not after (DESC) any returned one.
C4_OrderLimit ==
    last.op = "get_tags" =>
        LET a == last.args
            match == Selected(a.guild_id, a.start, a.end, a.author_id, a.show_hidden)
            n == Cardinality(match)
        IN
        /\ Len(last.ret) = IF a.limit < n THEN a.limit ELSE n
        /\ Len(last.ret) <= a.limit
        /\ Cardinality(ReturnedIds) = Len(last.ret)
        /\ \A i \in DOMAIN last.ret : last.ret[i] \in {Tag_t(r) : r \in match}
        /\ \A i, j \in DOMAIN last.ret :
              i < j => IF a.order = "ASC"
                       THEN last.ret[i].ts <= last.ret[j].ts
                       ELSE last.ret[i].ts >= last.ret[j].ts
        /\ \A i \in DOMAIN last.ret : \A r \in match :
              r.msg_id \notin ReturnedIds =>
                  IF a.order = "ASC"
                  THEN last.ret[i].ts <= r.timestamp_
                  ELSE last.ret[i].ts >= r.timestamp_

\* Two tags with different timestamps match and limit = 1 in descending order: the
\* later one is returned.
C4_Witness ==
    /\ last.op = "get_tags"
    /\ last.args.limit = 1
    /\ last.args.order = "DESC"
    /\ Cardinality(Selected(last.args.guild_id, last.args.start, last.args.end,
                            last.args.author_id, last.args.show_hidden)) = 2
    /\ Len(last.ret) = 1
    /\ \E r \in table : r.timestamp_ < last.ret[1].ts

\* C5: a query with an author_id returns only that author's tags, for every
\* author id, 0 included.
C5_AuthorFilter ==
    (last.op = "get_tags" /\ last.args.author_id # {}) =>
        \A i \in DOMAIN last.ret : \A r \in RowsOf(last.ret[i]) :
            {r.author} = last.args.author_id

\* What get_tags does: the filter is applied for an author id other than 0, and
\* with None or 0 the tags of all authors are returned.
C5_AuthorFilterTruthy ==
    last.op = "get_tags" =>
        LET a == last.args IN
        /\ Truthy(a.author_id) =>
              \A i \in DOMAIN last.ret : \A r \in RowsOf(last.ret[i]) :
                  {r.author} = a.author_id
        /\ (~Truthy(a.author_id) /\ a.show_hidden /\ Len(last.ret) < a.limit) =>
              ReturnedIds = {r.msg_id : r \in
                  {x \in table : /\ x.guild = a.guild_id
                                 /\ int(a.start) <= x.timestamp_
                                 /\ x.timestamp_ <= int(a.end)}}

\* A query for author 1 left a tag of author 0 out.
C5_Witness ==
    /\ last.op = "get_tags"
    /\ last.args.author_id = {1}
    /\ last.args.limit = MaxLimit
    /\ Len(last.ret) = 1
    /\ \E r \in table :
          /\ r.author = 0
          /\ r.guild = last.args.guild_id
          /\ int(last.args.start) <= r.timestamp_
          /\ r.timestamp_ <= int(last.args.end)
          /\ (~r.hidden \/ last.args.show_hidden)

\* C6: a tag is created with votes = 0, and after N increment_vote(+1) and M
\* increment_vote(-1) calls on it, in any order, its votes are N - M, below zero
\* when M > N.
C6_VotesAdditive ==
    /\ \A r \in table : r.votes = 0 + ups[r.msg_id] - downs[r.msg_id]
    /\ (last.op = "tag" /\ last.err = "none") =>
          \A r \in WhereMsgId(last.args.msg_id) : r.votes = 0

\* A tag that was voted up once and down MaxVoteCalls times has negative votes.
C6_Witness ==
    \E r \in table :
        /\ ups[r.msg_id] = 1
        /\ downs[r.msg_id] = MaxVoteCalls
        /\ r.votes < 0

\* No two rows share a msg_id.
UniqueMsgId == \A r1, r2 \in table : r1.msg_id = r2.msg_id => r1 = r2

\* C7: tag() with a msg_id that is already stored raises sqlite's IntegrityError
\* and leaves the table as it was; no two rows ever share a msg_id.
C7_DuplicateCreate ==
    /\ []UniqueMsgId
    /\ [][(last'.op = "tag" /\ Contains(last'.args.msg_id)) =>
            (last'.err = "IntegrityError" /\ table' = table)]_vars

\* A tag() of a stored id has failed, with two tags in the store.
C7_Witness ==
    /\ last.op = "tag"
    /\ last.err = "IntegrityError"
    /\ Contains(last.args.msg_id)
    /\ Cardinality(table) = 2

\* C8, as the specification has it: remove() of an id that is not stored raises
\* NotFound.
C8_RemoveAbsentRaises ==
    (last.op = "remove" /\ last.rowcount = 0) => last.err = "NotFound"

\* C8, amended: remove() of an id that is not stored raises nothing and leaves the
\* table as it was.
C8_RemoveAbsentSilent ==
    [][(last'.op = "remove" /\ ~Contains(last'.args.msg_id)) =>
          (last'.err = "none" /\ last'.rowcount = 0 /\ table' = table)]_vars

\* A remove() of an id that is not stored, with another tag in the store.
C8_Witness ==
    /\ last.op = "remove"
    /\ last.rowcount = 0
    /\ table # {}

\* C9, as the specification has it: update_text, update_time and increment_vote
\* of an id that is not stored signal NotFound.
C9_UpdateAbsentSignals ==
    (last.op \in {"update_text", "update_time", "increment_vote"} /\ last.rowcount = 0)
        => last.err = "NotFound"

\* C9, amended: update_text, update_time and increment_vote of an id that is not
\* stored change nothing and return as for a stored id, without an error.
C9_UpdateAbsentSilent ==
    [][(/\ last'.op \in {"update_text", "update_time", "increment_vote"}
        /\ ~Contains(last'.args.msg_id)) =>
          (/\ last'.err = "none" /\ last'.ret = <<>> /\ last'.rowcount = 0
           /\ table' = table)]_vars

\* An update_time() of an id that is not stored, with another tag in the store.
C9_Witness ==
    /\ last.op = "update_time"
    /\ last.rowcount = 0
    /\ table # {}

\* What a call leaves of a row: everything but the columns the call sets.
Kept(r, op) ==
    [msg_id |-> r.msg_id, guild |-> r.guild, author |-> r.author, hidden |-> r.hidden,
     timestamp_ |-> IF op = "update_time" THEN 0 ELSE r.timestamp_,
     message |-> IF op = "update_text" THEN "" ELSE r.message,
     hierarchy |-> IF op = "update_text" THEN 0 ELSE r.hierarchy,
     votes |-> IF op = "increment_vote" THEN 0 ELSE r.votes]

\* C10: a call changes only its own columns of the row it addresses: update_text
\* message and hierarchy, update_time timestamp_, increment_vote votes.  No call
\* changes the msg_id, guild, author or hidden of a row that stays, and no call
\* changes, adds or deletes a row with another msg_id.
C10_Frame ==
    [][last'.op # "idle" =>
        LET op == last'.op
            id == last'.args.msg_id
        IN
        /\ op \in {"update_text", "update_time", "increment_vote"} =>
              {Kept(r, op) : r \in table'} = {Kept(r, op) : r \in table}
        /\ \A r \in table : \A q \in table' :
              q.msg_id = r.msg_id =>
                  (q.guild = r.guild /\ q.author = r.author /\ q.hidden = r.hidden)
        /\ {r \in table' : r.msg_id # id} = {r \in table : r.msg_id # id}
      ]_vars

\* An update_text() has changed the text and the hierarchy of a hidden tag that
\* has votes, while another tag is stored.
C10_Witness ==
    /\ last.op = "update_text"
    /\ last.rowcount = 1
    /\ Cardinality(table) = 2
    /\ \E r \in WhereMsgId(last.args.msg_id) :
          r.hidden /\ r.votes # 0 /\ r.message = "y" /\ r.hierarchy = MaxHier

----------------------------------------------------------------------------
(* utils.py: the cached stores.                                               *)
(*                                                                            *)
(* PersistentDict and PersistentSetDict keep a sqlite table each and a copy   *)
(* of it in memory, `_store`.  Both constructors share the module's set       *)
(* assigned_table_names.  The outcome of a call is left in `last`, as for     *)
(* the tag store.                                                             *)

\* depth arguments are 0 .. MaxDepth
MaxDepth == 2

\* The table names of the repository: admin_config.py:23, tag_command.py:52, streams.py:22.
TableNames == {"settings", "guild_streams", "channnels_list"}

Depths == 0 .. MaxDepth

\* What the caller of a cached store sees: the exception raised and the value returned.
Outcome(op, args, err, ret) ==
    [op |-> op, args |-> args, err |-> err, rowcount |-> -1, ret |-> ret]

\* A new object; objects are told apart by the order of their construction.
NewObject(table_name, shape) ==
    [table_name |-> table_name, shape |-> shape, obj |-> Cardinality(instances) + 1]

\* PersistentDict(database, table_name) that binds a name already bound.
PersistentDict_init_rebind(table_name) ==
    /\ assigned_table_names' = assigned_table_names \cup {table_name}
    /\ instances' = instances \cup {NewObject(table_name, "PersistentDict")}
    /\ last' = Outcome("PersistentDict", <<table_name>>, "none", <<>>)

\* PersistentDict.__init__: assert, then CREATE TABLE IF NOT EXISTS, then register.
PersistentDict_init(table_name) ==
    IF table_name \in assigned_table_names
    THEN /\ last' = Outcome("PersistentDict", <<table_name>>, "AssertionError", <<>>)
         /\ UNCHANGED <<assigned_table_names, instances>>
    ELSE /\ assigned_table_names' = assigned_table_names \cup {table_name}
         /\ instances' = instances \cup {NewObject(table_name, "PersistentDict")}
         /\ last' = Outcome("PersistentDict", <<table_name>>, "none", <<>>)

\* PersistentSetDict.__init__: as above; with depth 0 the CREATE TABLE statement
\* has an empty column list and sqlite refuses it.
PersistentSetDict_init(table_name, depth) ==
    IF table_name \in assigned_table_names
    THEN /\ last' = Outcome("PersistentSetDict", <<table_name>>, "AssertionError", <<>>)
         /\ UNCHANGED <<assigned_table_names, instances>>
    ELSE IF depth = 0
    THEN /\ last' = Outcome("PersistentSetDict", <<table_name>>, "OperationalError", <<>>)
         /\ UNCHANGED <<assigned_table_names, instances>>
    ELSE /\ assigned_table_names' = assigned_table_names \cup {table_name}
         /\ instances' = instances \cup {NewObject(table_name, "PersistentSetDict")}
         /\ last' = Outcome("PersistentSetDict", <<table_name>>, "none", <<>>)

\* The variables a constructor call leaves alone.
notRegistry ==
    <<table, live, ups, downs, pd, pd_sql, now, selects, psd, psd_sql, wrote, attempt, pending, private, last_dump, deleted, schema, holodex>>

NewDict ==
    /\ last.op = "idle"
    /\ \E table_name \in TableNames : PersistentDict_init(table_name)
    /\ UNCHANGED notRegistry

NewSetDict ==
    /\ last.op = "idle"
    /\ \E table_name \in TableNames, depth \in Depths :
          PersistentSetDict_init(table_name, depth)
    /\ UNCHANGED notRegistry

NextRegistry ==
    \/ NewDict
    \/ NewSetDict
    \/ Return

SpecRegistry == Init /\ [][NextRegistry]_vars

\* The objects bound to a table name.
BoundTo(table_name) == {i \in instances : i.table_name = table_name}

\* C14: at most one cached store object, of either kind, is bound to a table
\* name; a constructor called with a bound name fails with an AssertionError
\* and leaves the registry and the objects as they were.
C14_OneInstancePerTable ==
    /\ [](\A n \in TableNames : Cardinality(BoundTo(n)) <= 1)
    /\ [](assigned_table_names = {i.table_name : i \in instances})
    /\ [][\A n \in TableNames :
            (last.op = "idle" /\ last'.op \in {"PersistentDict", "PersistentSetDict"}
             /\ last'.args = <<n>> /\ n \in assigned_table_names)
            => /\ last'.err = "AssertionError"
               /\ assigned_table_names' = assigned_table_names
               /\ instances' = instances]_vars

\* A PersistentDict was refused a name that a PersistentSetDict holds.
C14_Witness ==
    /\ last.op = "PersistentDict"
    /\ last.err = "AssertionError"
    /\ \E i \in instances : i.table_name = last.args[1] /\ i.shape = "PersistentSetDict"

----------------------------------------------------------------------------
(* Serialization.                                                             *)
(*                                                                            *)
(* Keys are always written with repr and read with ast.literal_eval; values   *)
(* with the store's dump_v and load_v: repr and literal_eval by default,      *)
(* stream_dump and stream_load for the table guild_streams.  A text is        *)
(* modelled as the pair of its format and the value it was made from.         *)
(* Anon is a Stream without a stream_id: its repr is not a literal, and two   *)
(* such objects are equal only if they are the same object (stream.py:29),    *)
(* so the copy that stream_load makes is not equal to it.                     *)

Anon == "anon"

\* literal_eval refuses a text that is not a literal.
Malformed == "malformed"

\* The copy of Anon that stream_load returns.
Copy == "copy"

repr(x) == <<"repr", x>>

literal_eval(s) == IF s[2] = Anon THEN Malformed ELSE s[2]

stream_dump(x) == <<"json", x>>

stream_load(s) == IF s[2] = Anon THEN Copy ELSE s[2]

\* self.dump_v and self.load_v
dump_v(self, x) == IF self.dump_v = "repr" THEN repr(x) ELSE stream_dump(x)

load_v(self, s) == IF self.dump_v = "repr" THEN literal_eval(s) ELSE stream_load(s)

\* dict operations on a function
Put(f, k, v) == [x \in DOMAIN f \cup {k} |-> IF x = k THEN v ELSE f[x]]

Drop(f, k) == [x \in DOMAIN f \ {k} |-> f[x]]

----------------------------------------------------------------------------
(* PersistentDict                                                             *)

\* the clock runs from 0 to MaxNow
MaxNow == 2

\* cache_duration is None or one of 0 .. MaxTTL
MaxTTL == 1

DictKeys == {"k1", "k2", Anon}

Values == {"a", "b", Anon}

\* cache_duration: float | None
OptDurations == {{}} \cup {{d} : d \in 0 .. MaxTTL}

\* The fields of a PersistentDict as __init__ leaves them; _last_cache is -inf.
FreshDict(cache_duration) ==
    [table_name |-> "channnels_list", cache_duration |-> cache_duration, dump_v |-> "repr",
     _store |-> NoRows, _cache_valid |-> FALSE, _last_cache |-> {}]

\* time.monotonic() - self._last_cache > self.cache_duration
Expired(self) ==
    \/ self._last_cache = {}
    \/ \E t \in self._last_cache, d \in self.cache_duration : now - t > d

\* _calc_cache_staleness with >= for >
pd_calc_cache_staleness_eager(self) ==
    IF self.cache_duration # {}
       /\ (self._last_cache = {}
           \/ \E t \in self._last_cache, d \in self.cache_duration : now - t >= d)
    THEN [self EXCEPT !._cache_valid = FALSE]
    ELSE self

pd_calc_cache_staleness(self) ==
    IF self.cache_duration # {} /\ Expired(self)
    THEN [self EXCEPT !._cache_valid = FALSE]
    ELSE self

\* _populate_from_sql: the rows of the table, decoded
pd_populate_from_sql(self) ==
    [self EXCEPT
        !._store = [k \in {literal_eval(r.key_) : r \in pd_sql} |->
                       load_v(self, (CHOOSE r \in pd_sql : literal_eval(r.key_) = k).value_)],
        !._cache_valid = TRUE,
        !._last_cache = {now}]

\* The first lines of every read: refresh the snapshot if it is not valid.
Refreshed(self) ==
    IF pd_calc_cache_staleness(self)._cache_valid
    THEN pd_calc_cache_staleness(self)
    ELSE pd_populate_from_sql(pd_calc_cache_staleness(self))

Read(op, args, err, ret) ==
    /\ pd' = Refreshed(pd)
    /\ selects' = IF pd_calc_cache_staleness(pd)._cache_valid THEN selects ELSE selects + 1
    /\ last' = Outcome(op, args, err, ret)
    /\ UNCHANGED <<pd_sql, wrote>>

pd_getitem(key) ==
    IF key \in DOMAIN Refreshed(pd)._store
    THEN Read("pd_getitem", <<key>>, "none", <<Refreshed(pd)._store[key]>>)
    ELSE Read("pd_getitem", <<key>>, "KeyError", <<>>)

pd_iter == Read("pd_iter", <<>>, "none", DOMAIN Refreshed(pd)._store)

pd_len == Read("pd_len", <<>>, "none", <<Cardinality(DOMAIN Refreshed(pd)._store)>>)

\* __setitem__ without the validity test
pd_setitem_unchecked(key, value) ==
    /\ pd_sql' = {r \in pd_sql : r.key_ # repr(key)}
                    \cup {[key_ |-> repr(key), value_ |-> dump_v(pd, value)]}
    /\ pd' = [pd EXCEPT !._store = Put(@, key, value)]
    /\ wrote' = Put(wrote, key, [op |-> "set", v |-> value])
    /\ last' = Outcome("pd_setitem", <<key, value>>, "none", <<>>)
    /\ UNCHANGED selects

pd_setitem(key, value) ==
    IF ~(key = literal_eval(repr(key)) /\ value = load_v(pd, dump_v(pd, value)))
    THEN /\ last' = Outcome("pd_setitem", <<key, value>>, "ValueError", <<>>)
         /\ UNCHANGED <<pd, pd_sql, selects, wrote>>
    ELSE /\ pd_sql' = {r \in pd_sql : r.key_ # repr(key)}
                         \cup {[key_ |-> repr(key), value_ |-> dump_v(pd, value)]}
         /\ pd' = [pd EXCEPT !._store = Put(@, key, value)]
         /\ wrote' = Put(wrote, key, [op |-> "set", v |-> value])
         /\ last' = Outcome("pd_setitem", <<key, value>>, "none", <<>>)
         /\ UNCHANGED selects

\* __delitem__ that lets the snapshot's KeyError out.
pd_delitem_strict(key) ==
    /\ pd_sql' = {r \in pd_sql : r.key_ # repr(key)}
    /\ pd' = [pd EXCEPT !._store = Drop(@, key)]
    /\ wrote' = Put(wrote, key, [op |-> "del", v |-> Anon])
    /\ last' = Outcome("pd_delitem", <<key>>,
                       IF key \in DOMAIN pd._store THEN "none" ELSE "KeyError", <<>>)
    /\ UNCHANGED selects

pd_delitem(key) ==
    /\ pd_sql' = {r \in pd_sql : r.key_ # repr(key)}
    /\ pd' = [pd EXCEPT !._store = Drop(@, key)]
    /\ wrote' = Put(wrote, key, [op |-> "del", v |-> Anon])
    /\ last' = Outcome("pd_delitem", <<key>>, "none", <<>>)
    /\ UNCHANGED selects

\* The variables a call on the PersistentDict leaves alone.
notDict ==
    <<table, live, ups, downs, assigned_table_names, instances, now, psd, psd_sql, attempt, pending, private, last_dump, deleted, schema, holodex>>

GetItemCall ==
    /\ last.op = "idle"
    /\ \E key \in DictKeys : pd_getitem(key)
    /\ UNCHANGED notDict

IterCall ==
    /\ last.op = "idle"
    /\ pd_iter
    /\ UNCHANGED notDict

LenCall ==
    /\ last.op = "idle"
    /\ pd_len
    /\ UNCHANGED notDict

SetItemCall ==
    /\ last.op = "idle"
    /\ \E key \in DictKeys, value \in Values : pd_setitem(key, value)
    /\ UNCHANGED notDict

DelItemCall ==
    /\ last.op = "idle"
    /\ \E key \in DictKeys : pd_delitem(key)
    /\ UNCHANGED notDict

\* time passes between calls
Tick ==
    /\ last.op = "idle"
    /\ now < MaxNow
    /\ now' = now + 1
    /\ UNCHANGED <<table, last, live, ups, downs, assigned_table_names, instances,
                   pd, pd_sql, selects, psd, psd_sql, wrote, attempt, pending, private, last_dump, deleted, schema, holodex>>

\* The process ends and a new one constructs the object again over the same table.
RestartDict ==
    /\ last.op = "idle"
    /\ pd._store # NoRows
    /\ pd' = FreshDict(pd.cache_duration)
    /\ selects' = 0
    /\ wrote' = NoRows
    /\ UNCHANGED <<table, last, live, ups, downs, assigned_table_names, instances,
                   pd_sql, now, psd, psd_sql, attempt, pending, private, last_dump, deleted, schema, holodex>>

InitDict ==
    /\ InitTags
    /\ assigned_table_names = {"channnels_list"}
    /\ instances = {[table_name |-> "channnels_list", shape |-> "PersistentDict", obj |-> 1]}
    /\ \E cache_duration \in OptDurations : pd = FreshDict(cache_duration)
    /\ pd_sql = {}
    /\ now = 0
    /\ selects = 0
    /\ psd = NoInstance
    /\ psd_sql = NoRows
    /\ wrote = NoRows
    /\ attempt = NoAttempt
    /\ pending = {}
    /\ private = {}
    /\ last_dump = <<>>
    /\ deleted = <<>>
    /\ schema = [exists |-> TRUE, hierarchy |-> TRUE, user_version |-> 2, con |-> TRUE]
    /\ holodex = [sem |-> 1, waiters |-> <<>>, backoffs |-> 0, cooldowns |-> 0, returned |-> <<>>]

NextDict ==
    \/ GetItemCall
    \/ IterCall
    \/ LenCall
    \/ SetItemCall
    \/ DelItemCall
    \/ Tick
    \/ RestartDict
    \/ Return

SpecDict == InitDict /\ [][NextDict]_vars

----------------------------------------------------------------------------
(* Properties of PersistentDict.                                              *)

Reads == {"pd_getitem", "pd_iter", "pd_len"}

\* More than the configured duration has passed since the last rebuild.
TTLElapsed ==
    \E t \in pd._last_cache, d \in pd.cache_duration : now - t > d

\* What a read returns when it is served from the snapshot s.
Served(s, call) ==
    IF call.op = "pd_getitem"
    THEN IF call.args[1] \in DOMAIN s
         THEN call.err = "none" /\ call.ret = <<s[call.args[1]]>>
         ELSE call.err = "KeyError"
    ELSE IF call.op = "pd_iter"
    THEN call.ret = DOMAIN s
    ELSE call.ret = <<Cardinality(DOMAIN s)>>

\* C12: a read of the PersistentDict (get, iteration, length) reads the table
\* exactly when the snapshot was never built or a cache_duration is set and
\* more than it has passed since the last rebuild; any other read is answered
\* from the snapshot as it is.  Without a cache_duration the table is read at
\* most once in the life of the object.
C12_RebuildIff ==
    /\ [](pd.cache_duration = {} => selects <= 1)
    /\ []((selects = 0) <=> (pd._last_cache = {}))
    /\ [][(last.op = "idle" /\ last'.op \in Reads)
            => /\ selects' \in {selects, selects + 1}
               /\ (selects' = selects + 1)
                    <=> (selects = 0 \/ (pd.cache_duration # {} /\ TTLElapsed))
               /\ (selects' = selects)
                    => (pd' = pd /\ Served(pd._store, last'))]_vars

\* A snapshot built earlier has outlived its cache_duration and a get has
\* rebuilt it; the key it asked for was written in between.
C12_Witness ==
    /\ last.op = "pd_getitem"
    /\ last.err = "none"
    /\ selects = 2
    /\ pd.cache_duration = {1}
    /\ pd._last_cache = {now}

----------------------------------------------------------------------------
(* PersistentSetDict                                                          *)

\* The two tables of the repository: admin_config.py:23 and tag_command.py:52.
SetTables ==
    {[table_name |-> "settings", depth |-> 2, dump_v |-> "repr"],
     [table_name |-> "guild_streams", depth |-> 1, dump_v |-> "stream_dump"]}

\* The key tuples passed to the methods: of length 1 and 2, and with a key
\* that is no literal.
SetKeys == {<<"k1">>, <<"k2">>, <<"k1", "k1">>, <<"k1", "k2">>, <<Anon>>, <<"k1", Anon>>}

\* The collections passed to __setitem__.
ValueSets == {{}, {"a"}, {"b"}, {"a", "b"}, {"a", Anon}}

\* The fields of a PersistentSetDict as __init__ leaves them.
FreshSetDict(t) ==
    [table_name |-> t.table_name, depth |-> t.depth, dump_v |-> t.dump_v,
     _store |-> NoRows, _cache_valid |-> FALSE]

\* key_strs = tuple(repr(key) for key in keys), with the text of the value
Row(keys, text) == [keys |-> [i \in DOMAIN keys |-> repr(keys[i])], value_ |-> text]

\* tuple(literal_eval(key) for key in result[:-1])
KeysOf(r) == [i \in DOMAIN r.keys |-> literal_eval(r.keys[i])]

\* INSERT into a table without the UNIQUE constraint
Insert_duplicate(rows, r) ==
    [x \in DOMAIN rows \cup {r} |->
        IF x = r THEN (IF r \in DOMAIN rows THEN rows[r] + 1 ELSE 1) ELSE rows[x]]

\* INSERT into a table with UNIQUE(keys, value_) ON CONFLICT REPLACE
Insert(rows, r) == [x \in DOMAIN rows \cup {r} |-> IF x = r THEN 1 ELSE rows[x]]

RECURSIVE InsertAll(_, _)
InsertAll(rows, rs) ==
    IF rs = {} THEN rows
    ELSE LET r == CHOOSE x \in rs : TRUE IN InsertAll(Insert(rows, r), rs \ {r})

\* DELETE ... WHERE key_0 = ? AND ...
DeleteKeys(rows, key_strs) == [x \in {r \in DOMAIN rows : r.keys # key_strs} |-> rows[x]]

\* DELETE ... WHERE key_0 = ? AND ... AND value_ = ?
DeleteRow(rows, row) == [x \in DOMAIN rows \ {row} |-> rows[x]]

\* _populate_from_sql
psd_populate_from_sql(self) ==
    [self EXCEPT
        !._store = [k \in {KeysOf(r) : r \in DOMAIN psd_sql} |->
                      {load_v(self, r.value_) : r \in {x \in DOMAIN psd_sql : KeysOf(x) = k}}],
        !._cache_valid = TRUE]

\* if not self._cache_valid: self._populate_from_sql()
Populated(self) == IF self._cache_valid THEN self ELSE psd_populate_from_sql(self)

\* The validity test of add and __setitem__.
Invalid(self, keys, values) ==
    \/ \E i \in DOMAIN keys : keys[i] # literal_eval(repr(keys[i]))
    \/ \E value \in values : value # load_v(self, dump_v(self, value))

Raise(op, args, err) ==
    /\ last' = Outcome(op, args, err, <<>>)
    /\ UNCHANGED <<psd, psd_sql, wrote>>

psd_getitem(keys) ==
    IF Len(keys) # psd.depth
    THEN Raise("psd_getitem", <<keys>>, "TypeError")
    ELSE /\ psd' = Populated(psd)
         /\ last' = IF keys \in DOMAIN Populated(psd)._store
                    THEN Outcome("psd_getitem", <<keys>>, "none", Populated(psd)._store[keys])
                    ELSE Outcome("psd_getitem", <<keys>>, "KeyError", <<>>)
         /\ UNCHANGED <<psd_sql, wrote>>

psd_contains(keys) ==
    /\ psd' = Populated(psd)
    /\ last' = Outcome("psd_contains", <<keys>>, "none", <<keys \in DOMAIN Populated(psd)._store>>)
    /\ UNCHANGED <<psd_sql, wrote>>

psd_len ==
    /\ psd' = Populated(psd)
    /\ last' = Outcome("psd_len", <<>>, "none", <<Cardinality(DOMAIN Populated(psd)._store)>>)
    /\ UNCHANGED <<psd_sql, wrote>>

psd_add(keys, value) ==
    IF Invalid(psd, keys, {value})
    THEN Raise("psd_add", <<keys, value>>, "ValueError")
    ELSE IF Len(keys) # psd.depth
    THEN Raise("psd_add", <<keys, value>>, "TypeError")
    ELSE /\ psd_sql' = Insert(psd_sql, Row(keys, dump_v(psd, value)))
         /\ psd' = [psd EXCEPT !._store =
                       Put(@, keys, (IF keys \in DOMAIN @ THEN @[keys] ELSE {}) \cup {value})]
         /\ wrote' = Put(wrote, keys, [op |-> "add", v |-> {value}])
         /\ last' = Outcome("psd_add", <<keys, value>>, "none", <<>>)

psd_setitem(keys, value_set) ==
    IF Invalid(psd, keys, value_set)
    THEN Raise("psd_setitem", <<keys, value_set>>, "ValueError")
    ELSE IF Len(keys) # psd.depth
    THEN Raise("psd_setitem", <<keys, value_set>>, "TypeError")
    ELSE /\ psd_sql' = InsertAll(DeleteKeys(psd_sql, Row(keys, "").keys),
                                 {Row(keys, dump_v(psd, value)) : value \in value_set})
         /\ psd' = [psd EXCEPT !._store = Put(@, keys, value_set)]
         /\ wrote' = Put(wrote, keys, [op |-> "set", v |-> value_set])
         /\ last' = Outcome("psd_setitem", <<keys, value_set>>, "none", <<>>)

\* remove: the row is deleted and committed, then the member is taken out of
\* the snapshot's bucket, which raises KeyError if either is missing there.
psd_remove(keys, value) ==
    IF Len(keys) # psd.depth
    THEN Raise("psd_remove", <<keys, value>>, "TypeError")
    ELSE /\ psd_sql' = DeleteRow(psd_sql, Row(keys, repr(value)))
         /\ wrote' = Drop(wrote, keys)
         /\ IF keys \in DOMAIN psd._store /\ value \in psd._store[keys]
            THEN /\ psd' = [psd EXCEPT !._store = Put(@, keys, @[keys] \ {value})]
                 /\ last' = Outcome("psd_remove", <<keys, value>>, "none", <<>>)
            ELSE /\ psd' = psd
                 /\ last' = Outcome("psd_remove", <<keys, value>>, "KeyError", <<>>)

psd_delitem(keys) ==
    IF Len(keys) # psd.depth
    THEN Raise("psd_delitem", <<keys>>, "TypeError")
    ELSE /\ psd_sql' = DeleteKeys(psd_sql, Row(keys, "").keys)
         /\ psd' = [psd EXCEPT !._store = Drop(@, keys)]
         /\ wrote' = Put(wrote, keys, [op |-> "del", v |-> {}])
         /\ last' = Outcome("psd_delitem", <<keys>>, "none", <<>>)

\* The variables a call on the PersistentSetDict leaves alone.
notSetDict ==
    <<table, live, ups, downs, assigned_table_names, instances, pd, pd_sql, now, selects,
      attempt, pending, private, last_dump, deleted, schema, holodex>>

SetGetItemCall ==
    /\ last.op = "idle"
    /\ \E keys \in SetKeys : psd_getitem(keys)
    /\ UNCHANGED notSetDict

SetContainsCall ==
    /\ last.op = "idle"
    /\ \E keys \in SetKeys : psd_contains(keys)
    /\ UNCHANGED notSetDict

SetLenCall ==
    /\ last.op = "idle"
    /\ psd_len
    /\ UNCHANGED notSetDict

AddCall ==
    /\ last.op = "idle"
    /\ \E keys \in SetKeys, value \in Values : psd_add(keys, value)
    /\ UNCHANGED notSetDict

SetSetItemCall ==
    /\ last.op = "idle"
    /\ \E keys \in SetKeys, value_set \in ValueSets : psd_setitem(keys, value_set)
    /\ UNCHANGED notSetDict

SetRemoveCall ==
    /\ last.op = "idle"
    /\ \E keys \in SetKeys, value \in Values : psd_remove(keys, value)
    /\ UNCHANGED notSetDict

SetDelItemCall ==
    /\ last.op = "idle"
    /\ \E keys \in SetKeys : psd_delitem(keys)
    /\ UNCHANGED notSetDict

\* The process ends and a new one constructs the object again over the same table.
RestartSetDict ==
    /\ last.op = "idle"
    /\ psd # FreshSetDict(psd)
    /\ psd' = FreshSetDict(psd)
    /\ wrote' = NoRows
    /\ UNCHANGED <<table, last, live, ups, downs, assigned_table_names, instances,
                   pd, pd_sql, now, selects, psd_sql, attempt, pending, private, last_dump, deleted, schema, holodex>>

InitSetDict ==
    /\ InitTags
    /\ \E t \in SetTables :
        /\ assigned_table_names = {t.table_name}
        /\ instances = {[table_name |-> t.table_name, shape |-> "PersistentSetDict", obj |-> 1]}
        /\ psd = FreshSetDict(t)
    /\ psd_sql = NoRows
    /\ pd = NoInstance
    /\ pd_sql = {}
    /\ now = 0
    /\ selects = 0
    /\ wrote = NoRows
    /\ attempt = NoAttempt
    /\ pending = {}
    /\ private = {}
    /\ last_dump = <<>>
    /\ deleted = <<>>
    /\ schema = [exists |-> TRUE, hierarchy |-> TRUE, user_version |-> 2, con |-> TRUE]
    /\ holodex = [sem |-> 1, waiters |-> <<>>, backoffs |-> 0, cooldowns |-> 0, returned |-> <<>>]

NextSetDict ==
    \/ SetGetItemCall
    \/ SetContainsCall
    \/ SetLenCall
    \/ AddCall
    \/ SetSetItemCall
    \/ SetRemoveCall
    \/ SetDelItemCall
    \/ RestartSetDict
    \/ Return

SpecSetDict == InitSetDict /\ [][NextSetDict]_vars

----------------------------------------------------------------------------
(* Properties of the cached stores.                                           *)

\* A get of the PersistentDict answers as the last write to its key says.
DictReadsOwnWrite ==
    (last.op = "pd_getitem" /\ last.args[1] \in DOMAIN wrote)
    => IF wrote[last.args[1]].op = "set"
       THEN last.err = "none" /\ last.ret = <<wrote[last.args[1]].v>>
       ELSE last.err = "KeyError"

\* A get of the PersistentSetDict answers as the last write to its keys says.
SetDictReadsOwnWrite ==
    (last.op = "psd_getitem" /\ last.args[1] \in DOMAIN wrote)
    => IF wrote[last.args[1]].op = "set"
       THEN last.err = "none" /\ last.ret = wrote[last.args[1]].v
       ELSE IF wrote[last.args[1]].op = "add"
       THEN last.err = "none" /\ wrote[last.args[1]].v \subseteq last.ret
       ELSE last.err = "KeyError"

\* C11: on either kind of cached store, a get of a key returns what the last
\* successful set of that key stored (contains the member the last add added),
\* and raises KeyError after a delete of the key, whatever the state of the
\* snapshot at the write and at the read.
C11_ReadYourWrites == DictReadsOwnWrite /\ SetDictReadsOwnWrite

\* The same for every write but the assignment of an empty collection.
C11_ReadYourWritesNonEmpty ==
    /\ DictReadsOwnWrite
    /\ (last.op = "psd_getitem" /\ last.args[1] \in DOMAIN wrote
        /\ wrote[last.args[1]] # [op |-> "set", v |-> {}])
       => SetDictReadsOwnWrite

\* A bucket was assigned the empty collection while the snapshot was not
\* built, and the get that follows raises KeyError.
C11_Witness ==
    /\ last.op = "psd_getitem"
    /\ last.err = "KeyError"
    /\ last.args[1] \in DOMAIN wrote
    /\ wrote[last.args[1]] = [op |-> "set", v |-> {}]

----------------------------------------------------------------------------
(* A process that uses a cached store of either kind.                         *)

InitStores == InitDict \/ InitSetDict

NextStores ==
    \/ (pd # NoInstance /\ NextDict)
    \/ (psd # NoInstance /\ NextSetDict)

SpecStores == InitStores /\ [][NextStores]_vars

\* The store object in use.
Store == IF pd # NoInstance THEN pd ELSE psd

\* The keys and the values a write was called with.
KeysWritten(call) == IF call.op = "pd_setitem" THEN <<call.args[1]>> ELSE call.args[1]

ValuesWritten(call) == IF call.op = "psd_setitem" THEN call.args[2] ELSE {call.args[2]}

\* decode(encode(x)) = x for every key and every value of the write
RoundTrips(call) ==
    /\ \A i \in DOMAIN KeysWritten(call) :
          literal_eval(repr(KeysWritten(call)[i])) = KeysWritten(call)[i]
    /\ \A v \in ValuesWritten(call) : load_v(Store, dump_v(Store, v)) = v

\* C13: a write to a cached store (set, add, assignment of a bucket) with a
\* key or a value that is not equal to its decoded encoding raises an error and
\* leaves the table and the snapshot as they were; a write whose keys and values
\* all round-trip is not refused for them, and is carried out when the number
\* of keys is the store's.
C13_RoundTripValidation ==
    [][(last.op = "idle" /\ last'.op \in {"pd_setitem", "psd_add", "psd_setitem"})
        => IF RoundTrips(last')
           THEN /\ last'.err # "ValueError"
                /\ (last'.op = "pd_setitem" \/ Len(last'.args[1]) = psd.depth)
                      => (last'.err = "none" /\ last'.args[1] \in DOMAIN Store'._store)
           ELSE /\ last'.err # "none"
                /\ UNCHANGED <<pd, pd_sql, psd, psd_sql>>]_vars

\* The table guild_streams holds a stream, and the add of a Stream without a
\* stream_id to it has been refused.
C13_Witness ==
    /\ last.op = "psd_add"
    /\ last.err = "ValueError"
    /\ last.args = <<<<"k1">>, Anon>>
    /\ psd.dump_v = "stream_dump"
    /\ Row(<<"k1">>, stream_dump("a")) \in DOMAIN psd_sql

\* The value is in the bucket of the keys in the table.
StoredMember(keys, value) == Row(keys, dump_v(psd, value)) \in DOMAIN psd_sql

\* C15: remove(keys, value) of the PersistentSetDict raises KeyError exactly
\* when the value is not in the bucket of the keys in the table; when it is,
\* remove takes it out of the table and out of the snapshot and raises nothing.
\* This holds whether or not the snapshot has been built.
C15_RemoveRaisesIffAbsent ==
    [][(last.op = "idle" /\ last'.op = "psd_remove" /\ last'.err # "TypeError")
        => /\ (last'.err = "KeyError") <=> ~StoredMember(last'.args[1], last'.args[2])
           /\ StoredMember(last'.args[1], last'.args[2])
                => /\ last'.err = "none"
                   /\ Row(last'.args[1], dump_v(psd, last'.args[2])) \notin DOMAIN psd_sql'
                   /\ last'.args[2] \notin psd'._store[last'.args[1]]]_vars

\* The same for a store that keeps the default serializer and whose snapshot
\* has been built.
C15_RemoveBuiltDefault ==
    [][(last.op = "idle" /\ last'.op = "psd_remove" /\ last'.err # "TypeError"
        /\ psd.dump_v = "repr" /\ psd._cache_valid)
        => /\ (last'.err = "KeyError") <=> ~StoredMember(last'.args[1], last'.args[2])
           /\ StoredMember(last'.args[1], last'.args[2])
                => /\ last'.err = "none"
                   /\ Row(last'.args[1], dump_v(psd, last'.args[2])) \notin DOMAIN psd_sql'
                   /\ last'.args[2] \notin psd'._store[last'.args[1]]]_vars

----------------------------------------------------------------------------
(* Retries: a caller executes a call and then executes it once more with the  *)
(* same arguments.  The process uses the tag store or one cached store.       *)

\* The calls that change the tag store, Create apart.
TagWrites ==
    {[op |-> "update_text", args |-> <<m, t, h>>] : m \in MsgIds, t \in Texts, h \in Hiers}
    \cup {[op |-> "update_time", args |-> <<m, t>>] : m \in MsgIds, t \in Halves}
    \cup {[op |-> "increment_vote", args |-> <<m, a>>] : m \in MsgIds, a \in {1, -1}}
    \cup {[op |-> "remove", args |-> <<m>>] : m \in MsgIds}

DictWrites ==
    {[op |-> "pd_setitem", args |-> <<k, v>>] : k \in DictKeys, v \in Values}
    \cup {[op |-> "pd_delitem", args |-> <<k>>] : k \in DictKeys}

SetDictWrites ==
    {[op |-> "psd_add", args |-> <<k, v>>] : k \in SetKeys, v \in Values}
    \cup {[op |-> "psd_setitem", args |-> <<k, s>>] : k \in SetKeys, s \in ValueSets}
    \cup {[op |-> "psd_remove", args |-> <<k, v>>] : k \in SetKeys, v \in Values}
    \cup {[op |-> "psd_delitem", args |-> <<k>>] : k \in SetKeys}

\* The writes of the component the process uses.
Writes ==
    IF pd # NoInstance THEN DictWrites
    ELSE IF psd # NoInstance THEN SetDictWrites
    ELSE TagWrites

\* One execution of the call c.
Exec(c) ==
    \/ /\ c.op = "update_text"
       /\ update_text(c.args[1], c.args[2], c.args[3])
       /\ UNCHANGED <<pd, pd_sql, selects, psd, psd_sql, wrote>>
    \/ /\ c.op = "update_time"
       /\ update_time(c.args[1], c.args[2])
       /\ UNCHANGED <<pd, pd_sql, selects, psd, psd_sql, wrote>>
    \/ /\ c.op = "increment_vote"
       /\ increment_vote(c.args[1], c.args[2])
       /\ UNCHANGED <<pd, pd_sql, selects, psd, psd_sql, wrote>>
    \/ /\ c.op = "remove"
       /\ remove(c.args[1])
       /\ UNCHANGED <<pd, pd_sql, selects, psd, psd_sql, wrote>>
    \/ /\ c.op = "pd_setitem"
       /\ pd_setitem(c.args[1], c.args[2])
       /\ UNCHANGED <<table, psd, psd_sql>>
    \/ /\ c.op = "pd_delitem"
       /\ pd_delitem(c.args[1])
       /\ UNCHANGED <<table, psd, psd_sql>>
    \/ /\ c.op = "psd_add"
       /\ psd_add(c.args[1], c.args[2])
       /\ UNCHANGED <<table, pd, pd_sql, selects>>
    \/ /\ c.op = "psd_setitem"
       /\ psd_setitem(c.args[1], c.args[2])
       /\ UNCHANGED <<table, pd, pd_sql, selects>>
    \/ /\ c.op = "psd_remove"
       /\ psd_remove(c.args[1], c.args[2])
       /\ UNCHANGED <<table, pd, pd_sql, selects>>
    \/ /\ c.op = "psd_delitem"
       /\ psd_delitem(c.args[1])
       /\ UNCHANGED <<table, pd, pd_sql, selects>>

\* The variables no write touches.
notWritten == <<live, ups, downs, assigned_table_names, instances, now, pending, private, last_dump, deleted, schema, holodex>>

\* The first execution of a call; the votes stay within MaxVotes.
FirstCall ==
    /\ last.op = "idle"
    /\ \E c \in Writes :
        /\ c.op = "increment_vote"
              => \A r \in WhereMsgId(c.args[1]) :
                    r.votes + c.args[2] <= MaxVotes /\ r.votes + c.args[2] >= -MaxVotes
        /\ Exec(c)
        /\ attempt' = [n |-> 1, op |-> c.op, args |-> c.args]
    /\ UNCHANGED notWritten

\* The caller executes the same call again.
RetryCall ==
    /\ attempt.n = 1
    /\ Exec(attempt)
    /\ attempt' = [attempt EXCEPT !.n = 2]
    /\ UNCHANGED notWritten

\* Tags are created for the calls above to work on; the histories of the
\* other specifications are not kept here.
TagCallRetry ==
    /\ last.op = "idle"
    /\ pd = NoInstance
    /\ psd = NoInstance
    /\ \E msg_id \in MsgIds, time \in {0, Whole(1)} : tag(msg_id, 1, time, "x", 1, FALSE, 0)
    /\ UNCHANGED <<live, ups, downs, cached>>

ReturnRetry ==
    /\ last.op # "idle"
    /\ last' = Idle
    /\ attempt' = NoAttempt
    /\ UNCHANGED <<table, live, ups, downs, assigned_table_names, instances,
                   pd, pd_sql, now, selects, psd, psd_sql, wrote, pending, private, last_dump, deleted, schema, holodex>>

InitRetry == Init \/ InitDict \/ InitSetDict

NextRetry ==
    \/ FirstCall
    \/ RetryCall
    \/ TagCallRetry
    \/ (pd # NoInstance /\ (GetItemCall \/ RestartDict))
    \/ (psd # NoInstance /\ (SetGetItemCall \/ RestartSetDict))
    \/ ReturnRetry

SpecRetry == InitRetry /\ [][NextRetry]_vars

----------------------------------------------------------------------------
(* Properties of retried calls.                                               *)

\* This step executes the call named op (for the first or the second time).
Executes(op) == attempt'.op = op /\ attempt'.n = attempt.n + 1

\* This step executes for the second time a call named op.
Retries(op) == attempt.n = 1 /\ attempt'.n = 2 /\ attempt.op = op

\* C16: add(keys, value) of the PersistentSetDict on a bucket that holds the
\* value already leaves one row for (keys, value) in the table and leaves the
\* table and the snapshot as they were; an add executed twice leaves what one
\* add leaves, with the same outcome.
C16_AddIdempotent ==
    /\ [](\A r \in DOMAIN psd_sql : psd_sql[r] = 1)
    /\ [][(Executes("psd_add") /\ last'.err = "none"
           /\ StoredMember(attempt'.args[1], attempt'.args[2])
           /\ attempt'.args[1] \in DOMAIN psd._store
           /\ attempt'.args[2] \in psd._store[attempt'.args[1]])
            => (psd_sql' = psd_sql /\ psd' = psd)]_vars
    /\ [][(Retries("psd_add") /\ last.err = "none")
            => (psd_sql' = psd_sql /\ psd' = psd /\ last' = last)]_vars

\* A member has been added twice in a row to a table that holds another row.
C16_Witness ==
    /\ attempt.n = 2
    /\ last.op = "psd_add"
    /\ last.err = "none"
    /\ Cardinality(DOMAIN psd_sql) = 2
    /\ psd_sql[Row(last.args[1], dump_v(psd, last.args[2]))] = 1

\* The second execution of a call leaves the stores as the first left them.
SameState ==
    /\ table' = table
    /\ pd_sql' = pd_sql /\ pd' = pd
    /\ psd_sql' = psd_sql /\ psd' = psd

\* The second execution of a call raises and returns what the first did.
SameOutcome == last'.err = last.err /\ last'.ret = last.ret

\* C19: every write other than Create (update_text, update_time,
\* increment_vote and remove of the tag store; set, add, remove and delete of
\* the cached stores), executed twice in a row with the same arguments, leaves
\* the state and the outcome of one execution.
C19_AllIdempotent ==
    [][(attempt.n = 1 /\ attempt'.n = 2) => (SameState /\ SameOutcome)]_vars

\* C19 (amended): the same holds for every such write but two.  increment_vote
\* adds its delta at each execution.  remove of the PersistentSetDict leaves the
\* same state, but raises KeyError the second time when the first succeeded.
C19_IdempotentExcept ==
    [][(attempt.n = 1 /\ attempt'.n = 2)
        => /\ attempt.op # "increment_vote" => SameState
           /\ attempt.op # "psd_remove" => SameOutcome
           /\ attempt.op = "psd_remove"
                => last'.err = (IF last.err = "none" THEN "KeyError" ELSE last.err)
           /\ attempt.op = "increment_vote"
                => \A r \in WhereMsgId(attempt.args[1]) :
                      [r EXCEPT !.votes = @ + attempt.args[2]] \in table']_vars

\* A vote was counted twice: the call was executed a second time.
C19_Witness ==
    /\ attempt.n = 2
    /\ attempt.op = "increment_vote"
    /\ last.op = "increment_vote"
    /\ \E r \in WhereMsgId(attempt.args[1]) : r.votes = 2 * attempt.args[2]

----------------------------------------------------------------------------
(* Properties of PersistentSetDict.                                           *)

KeyedOps ==
    {"psd_getitem", "psd_contains", "psd_add", "psd_setitem", "psd_remove", "psd_delitem"}

\* This step is a call of op with a key tuple that is not of the store's depth.
WrongArity(ops) ==
    /\ last.op = "idle"
    /\ last'.op \in ops
    /\ Len(last'.args[1]) # psd.depth

\* C17: every keyed method of the PersistentSetDict (get, contains, add,
\* assignment of a bucket, remove, delete), called with a key tuple whose
\* length is not the depth of the table, raises an error and leaves the table
\* and the snapshot as they were.
C17_ArityChecked ==
    [][WrongArity(KeyedOps)
        => (last'.err # "none" /\ psd' = psd /\ psd_sql' = psd_sql)]_vars

\* The same for every keyed method but __contains__.
C17_ArityCheckedButContains ==
    [][WrongArity(KeyedOps \ {"psd_contains"})
        => (last'.err \in {"TypeError", "ValueError"} /\ psd' = psd /\ psd_sql' = psd_sql)]_vars

----------------------------------------------------------------------------
(* tag_command.py: Tagging.dump_tags                                          *)

\* min_stars arguments are 0 .. MaxStars
MaxStars == 2

\* limit of a dump, and the limit when the server has switched fetch_limit off.
FetchLimit == 1000

NoFetchLimit == 1000000

\* The parameters of TagDatabase.get_tags.
get_tags_params ==
    {"guild_id", "start", "end", "author_id", "limit", "show_hidden", "order"}

\* What dump_tags raised or returned; `at` is the statement that ended it.
Dumped(args, err, ret, at) ==
    [op |-> "dump_tags", args |-> args, err |-> err, rowcount |-> -1, ret |-> ret, at |-> at]

\* self.bot.settings.configs.get(("fetch_limit", guild_id), []): Mapping.get
\* calls __getitem__, which builds the snapshot, and takes KeyError for [].
fetch_limit(guild_id) ==
    IF <<"fetch_limit", guild_id>> \in DOMAIN Populated(psd)._store
    THEN Populated(psd)._store[<<"fetch_limit", guild_id>>]
    ELSE {}

\* Tagging.dump_tags.  The call of get_tags passes the keywords limit and
\* min_votes; a keyword that get_tags does not have makes the call raise
\* TypeError before the body of get_tags runs.  The value returned is the
\* list of tags handed to the renderer.
dump_tags(guild_id, start, end, author_id, min_stars) ==
    LET args == [guild_id |-> guild_id, start |-> start, end |-> end,
                 author_id |-> author_id, min_stars |-> min_stars]
        limit == IF FALSE \in fetch_limit(guild_id) THEN NoFetchLimit ELSE FetchLimit
    IN  /\ psd' = Populated(psd)
        /\ table' = table
        /\ IF ~({"limit", "min_votes"} \subseteq get_tags_params)
           THEN last' = Dumped(args, "TypeError", <<>>, "get_tags")
           ELSE \E tags \in Fetchall(guild_id, start, end, author_id, limit, FALSE, "ASC") :
                  last' = IF Len(tags) = 0
                          THEN Dumped(args, "none", <<>>, "return")
                          ELSE IF end - start = 0
                          THEN Dumped(args, "ZeroDivisionError", <<>>, "tags_per_minute")
                          ELSE Dumped(args, "none", tags, "return")

MinStars == 0 .. MaxStars

DumpCall ==
    /\ last.op = "idle"
    /\ \E guild_id \in Guilds, start \in Halves, end \in Halves, author_id \in OptAuthors,
          min_stars \in MinStars :
          dump_tags(guild_id, start, end, author_id, min_stars)
    /\ UNCHANGED <<live, ups, downs, assigned_table_names, instances, pd, pd_sql, now,
                   selects, psd_sql, wrote, attempt, pending, private, last_dump, deleted, schema, holodex>>

\* The bot has constructed its settings (admin_config.py:23) and its tag store.
InitDump ==
    /\ InitTags
    /\ assigned_table_names = {"settings"}
    /\ instances = {[table_name |-> "settings", shape |-> "PersistentSetDict", obj |-> 1]}
    /\ psd = FreshSetDict([table_name |-> "settings", depth |-> 2, dump_v |-> "repr"])
    /\ psd_sql = NoRows
    /\ pd = NoInstance
    /\ pd_sql = {}
    /\ now = 0
    /\ selects = 0
    /\ wrote = NoRows
    /\ attempt = NoAttempt
    /\ pending = {}
    /\ private = {}
    /\ last_dump = <<>>
    /\ deleted = <<>>
    /\ schema = [exists |-> TRUE, hierarchy |-> TRUE, user_version |-> 2, con |-> TRUE]
    /\ holodex = [sem |-> 1, waiters |-> <<>>, backoffs |-> 0, cooldowns |-> 0, returned |-> <<>>]

NextDump ==
    \/ TagCallVotes
    \/ UpdateTimeCall
    \/ IncrementVoteCall
    \/ DumpCall
    \/ Return

SpecDump == InitDump /\ [][NextDump]_vars

----------------------------------------------------------------------------
(* Properties of dump_tags.                                                   *)

\* C18: a dump whose window is malformed (end <= start) is refused by
\* dump_tags itself, before it calls get_tags of the tag store; a window with
\* end = start never gets to the division by end - start.
C18_WindowRejected ==
    (last.op = "dump_tags" /\ last.args.end <= last.args.start)
    => (last.err # "none" /\ last.at \notin {"get_tags", "tags_per_minute", "return"})

\* The tags of the window that have at least min_stars votes, as get_tags
\* would select them for the dump.
Starred(a) ==
    {Tag_t(r) : r \in {x \in Selected(a.guild_id, a.start, a.end, a.author_id, FALSE) :
                          x.votes >= a.min_stars}}

\* C20: a dump with a min_stars threshold hands the renderer the tags of the
\* window whose votes are at least min_stars, and only those, and ends without
\* an error for every min_stars, 0 included.
C20_MinStars ==
    (last.op = "dump_tags")
    => /\ last.err = "none"
       /\ {last.ret[i] : i \in DOMAIN last.ret} = Starred(last.args)

----------------------------------------------------------------------------
(* tag_command.py: the rendering of a list of tags, the part of dump_tags     *)
(* that follows the query (lines 664-762).                                    *)
(*                                                                            *)
(* A text is rendered as a list of lines.  A line is a record: `chars` are    *)
(* the characters the line starts with (the tree marks and the first          *)
(* character of what follows them), the other fields are the values printed.  *)
(* start and end are floats, given in half seconds as for the tag store.      *)

\* votes of the tags rendered are -MaxVote .. MaxVote
MaxVote == 2

\* hierarchy levels of the tags rendered are 0 .. MaxLevel
MaxLevel == 2

Styles == {"classic", "csv", "yt", "yt-text", "alternative", "info"}

\* The characters of the tree: U+2800, U+251C, U+2514, U+2500, U+252C, and " ".
Blank == "blank"

Tee == "tee"

Corner == "corner"

Dash == "dash"

TeeDown == "teedown"

Space == "space"

\* sum(tag.vote for tag in tags)
RECURSIVE SumVotes(_)
SumVotes(tags) == IF tags = <<>> THEN 0 ELSE Head(tags).vote + SumVotes(Tail(tags))

\* Python's round() of the quotient p / q: to the nearest integer, a half to
\* the even one.
round(p, q) ==
    LET n == IF q > 0 THEN p ELSE -p
        d == IF q > 0 THEN q ELSE -q
        f == n \div d
        r == n - f * d
    IN  IF 2 * r < d THEN f
        ELSE IF 2 * r > d THEN f + 1
        ELSE IF f % 2 = 0 THEN f ELSE f + 1

\* round(math.log(n, 2)) for an integer n >= 1: the k with 2^(k-1/2) <= n < 2^(k+1/2)
RoundLog2(n) == CHOOSE k \in 0 .. n : 2 ^ (2 * k) <= 2 * n * n /\ 2 * n * n < 2 ^ (2 * k + 2)

\* adjusted_stars(v) for the list tags, 0 when it raises: avg_votes + 1 is (sum + len) / len, so
\* v / (avg_votes + 1) is v * len / (sum + len).  The division raises
\* ZeroDivisionError when avg_votes is -1, math.log raises ValueError for an
\* argument that is not positive.
adjusted_stars(v, tags) ==
    IF SumVotes(tags) + Len(tags) = 0
    THEN [err |-> "ZeroDivisionError", stars |-> 0]
    ELSE IF round(v * Len(tags), SumVotes(tags) + Len(tags)) + 1 <= 0
    THEN [err |-> "ValueError", stars |-> 0]
    ELSE [err |-> "none",
          stars |-> RoundLog2(round(v * Len(tags), SumVotes(tags) + Len(tags)) + 1)]

\* td_to_str of t half seconds: hours, minutes and seconds of t
td_to_str(t) ==
    [hours |-> t \div 7200, minutes |-> (t \div 120) % 60, seconds |-> (t % 120) \div 2]

\* [glyph] * n
Repeat(glyph, n) == [i \in 1 .. n |-> glyph]

\* Branch with the eighth condition holding only for a rise of two levels or more.
Branch_strict(prev_ind, curr_ind, next_ind) ==
    IF curr_ind = prev_ind /\ prev_ind <= next_ind THEN 1
    ELSE IF prev_ind = curr_ind THEN 2
    ELSE IF prev_ind > curr_ind /\ curr_ind = next_ind THEN 3
    ELSE IF prev_ind > curr_ind THEN 4
    ELSE IF curr_ind = 1 /\ curr_ind - prev_ind = 1 /\ curr_ind = next_ind THEN 5
    ELSE IF prev_ind < curr_ind /\ curr_ind = next_ind THEN 6
    ELSE IF curr_ind = 1 /\ prev_ind = 0 /\ next_ind # 1 THEN 7
    ELSE IF prev_ind < curr_ind - 1 THEN 8
    ELSE 9

\* The branch of the if-chain of lines 728-751 that a tag takes.
Branch(prev_ind, curr_ind, next_ind) ==
    IF curr_ind = prev_ind /\ prev_ind <= next_ind THEN 1
    ELSE IF prev_ind = curr_ind THEN 2
    ELSE IF prev_ind > curr_ind /\ curr_ind = next_ind THEN 3
    ELSE IF prev_ind > curr_ind THEN 4
    ELSE IF curr_ind = 1 /\ curr_ind - prev_ind = 1 /\ curr_ind = next_ind THEN 5
    ELSE IF prev_ind < curr_ind /\ curr_ind = next_ind THEN 6
    ELSE IF curr_ind = 1 /\ prev_ind = 0 /\ next_ind # 1 THEN 7
    ELSE IF prev_ind < curr_ind THEN 8
    ELSE 9

\* Mark with the closing corner of branch 2 drawn as a sibling tee.
Mark_sibling(prev_ind, curr_ind, next_ind) ==
    CASE Branch(prev_ind, curr_ind, next_ind) \in {1, 2, 3} -> <<Tee>>
      [] Branch(prev_ind, curr_ind, next_ind) = 4 -> <<Corner>>
      [] Branch(prev_ind, curr_ind, next_ind) = 5 -> <<Corner, Tee>>
      [] Branch(prev_ind, curr_ind, next_ind) = 6 ->
            <<Corner>> \o Repeat(Dash, curr_ind - prev_ind - 1) \o <<TeeDown>>
      [] Branch(prev_ind, curr_ind, next_ind) = 7 -> <<Corner, Corner>>
      [] Branch(prev_ind, curr_ind, next_ind) = 8 ->
            Repeat(Dash, curr_ind - prev_ind) \o <<Dash>>
      [] OTHER -> <<>>

\* What the branch appends to pre.
Mark(prev_ind, curr_ind, next_ind) ==
    CASE Branch(prev_ind, curr_ind, next_ind) = 1 -> <<Tee>>
      [] Branch(prev_ind, curr_ind, next_ind) = 2 -> <<Corner>>
      [] Branch(prev_ind, curr_ind, next_ind) = 3 -> <<Tee>>
      [] Branch(prev_ind, curr_ind, next_ind) = 4 -> <<Corner>>
      [] Branch(prev_ind, curr_ind, next_ind) = 5 -> <<Corner, Tee>>
      [] Branch(prev_ind, curr_ind, next_ind) = 6 ->
            <<Corner>> \o Repeat(Dash, curr_ind - prev_ind - 1) \o <<TeeDown>>
      [] Branch(prev_ind, curr_ind, next_ind) = 7 -> <<Corner, Corner>>
      [] Branch(prev_ind, curr_ind, next_ind) = 8 ->
            Repeat(Dash, curr_ind - prev_ind) \o <<Dash>>
      [] OTHER -> <<>>

\* pre indented by the level of the tag itself.
Pre_by_level(prev_ind, curr_ind, next_ind) ==
    LET pre == Repeat(Blank, curr_ind) \o Mark(prev_ind, curr_ind, next_ind)
    IN  IF Len(pre) > 1 THEN pre \o <<Space>> ELSE pre

\* pre: the indentation, the mark, and a space after more than one character.
Pre(prev_ind, curr_ind, next_ind) ==
    LET space_indent == curr_ind - (IF curr_ind - prev_ind > 0 THEN curr_ind - prev_ind ELSE 0)
        pre == Repeat(Blank, space_indent) \o Mark(prev_ind, curr_ind, next_ind)
    IN  IF Len(pre) > 1 THEN pre \o <<Space>> ELSE pre

\* line = pre + line; line = line[1:]; a leading dash becomes a corner.
\* c0 is the first character of the line before pre is put in front.
TreeChars(prev_ind, curr_ind, next_ind, c0) ==
    LET line == Tail(Pre(prev_ind, curr_ind, next_ind) \o <<c0, "rest">>)
    IN  IF line[1] = Dash THEN <<Corner>> \o Tail(line) ELSE line

\* tags_d[i].hier: the levels of the tags between those of dummy_first and dummy_last
Levels(tags) == <<tags[1].hier>> \o [i \in 1 .. Len(tags) |-> tags[i].hier] \o <<-1>>

\* Header with the rate taken per second.
Header_per_second(tags, start, end, stream_url) ==
    [chars |-> <<"header">>, url |-> stream_url, start |-> start, count |-> Len(tags),
     rate |-> round(20 * Len(tags), end - start)]

\* The header line; the rate is printed with one decimal and is kept in tenths.
\* len(tags) / (end - start) * 60 with end - start in half seconds.
Header(tags, start, end, stream_url) ==
    [chars |-> <<"header">>, url |-> stream_url, start |-> start, count |-> Len(tags),
     rate |-> round(1200 * Len(tags), end - start)]

\* The line of one tag; a number that is not printed is left out as {}.
Line(chars, t, text, vote, stars, hier, link) ==
    [chars |-> chars, time |-> td_to_str(t), text |-> text, vote |-> vote,
     stars |-> stars, hier |-> hier, link |-> link]

\* The lines of the tags in the styles alternative, yt and yt-text.
TreeLines(tags, start, style, stream_url, url_is_perm, offset) ==
    [i \in 1 .. Len(tags) |->
        Line(TreeChars(Levels(tags)[i], Levels(tags)[i + 1], Levels(tags)[i + 2],
                       IF style # "alternative" THEN "digit"
                       ELSE IF stream_url # "" /\ url_is_perm THEN "[" ELSE Space),
             Whole(tags[i].ts + offset) - start,
             tags[i].text,
             {},
             IF style = "alternative" /\ adjusted_stars(tags[i].vote, tags).stars # 0
             THEN {adjusted_stars(tags[i].vote, tags).stars} ELSE {},
             {},
             style = "alternative" /\ stream_url # "" /\ url_is_perm)]

\* What the rendering raised or returned; `at` is the statement that ended it.
Rendered(args, err, ret, at) ==
    [op |-> "render", args |-> args, err |-> err, rowcount |-> -1, ret |-> ret, at |-> at]

\* dump_tags from `if len(tags) == 0` on.
render(tags, start, end, style, stream_url, url_is_perm, offset) ==
    LET args == [tags |-> tags, start |-> start, end |-> end, style |-> style,
                 stream_url |-> stream_url, url_is_perm |-> url_is_perm, offset |-> offset]
        lines == IF style \notin {"yt", "yt-text", "csv"}
                 THEN <<Header(tags, start, end, stream_url)>> ELSE <<>>
        failing == {i \in 1 .. Len(tags) : adjusted_stars(tags[i].vote, tags).err # "none"}
    IN  IF Len(tags) = 0 THEN Rendered(args, "none", <<>>, "None")
        ELSE IF end - start = 0 THEN Rendered(args, "ZeroDivisionError", <<>>, "tags_per_minute")
        ELSE IF style = "classic"
        THEN Rendered(args, "none",
                lines \o [i \in 1 .. Len(tags) |->
                    Line(<<>>, Whole(tags[i].ts + offset) - start, tags[i].text,
                         IF tags[i].vote # 0 THEN {tags[i].vote} ELSE {}, {}, {},
                         stream_url # "" /\ url_is_perm)],
                "return")
        ELSE IF style = "csv"
        THEN Rendered(args, "none",
                lines \o [i \in 1 .. Len(tags) |->
                    Line(<<>>, Whole(tags[i].ts + offset) - start, tags[i].text,
                         {tags[i].vote}, {}, {tags[i].hier}, FALSE)],
                "return")
        ELSE IF style = "info" THEN Rendered(args, "none", lines, "return")
        ELSE IF style \in {"alternative", "yt", "yt-text"}
        THEN IF failing # {}
             THEN Rendered(args,
                    adjusted_stars(tags[CHOOSE i \in failing : \A j \in failing : i <= j].vote,
                                   tags).err,
                    <<>>, "adjusted_stars")
             ELSE Rendered(args, "none",
                    lines \o TreeLines(tags, start, style, stream_url, url_is_perm, offset),
                    "return")
        ELSE Rendered(args, "ValueError", <<>>, "match")

\* The lists rendered: one, two or four tags of level 0 with any votes, and up
\* to four tags without votes at any levels.  The tags are one second apart.
\* The average of the votes of one, two or four tags is exact in binary floating
\* point, so that round() sees the exact quotient; and no window of Ends makes
\* the rate an exact half of a tenth.
TagAt(i, vote, hier) == [ts |-> i, text |-> "x", vote |-> vote, msg_id |-> i, hier |-> hier]

VoteLists ==
    UNION {{[i \in 1 .. n |-> TagAt(i, v[i], 0)] : v \in [1 .. n -> (-MaxVote) .. MaxVote]} :
              n \in {1, 2, 4}}

LevelLists ==
    UNION {{[i \in 1 .. n |-> TagAt(i, 0, h[i])] : h \in [1 .. n -> 0 .. MaxLevel]} :
              n \in 1 .. 4}

\* end of the window in half seconds; the window starts at 0
Ends == {0, 1, 3, 7, Whole(300)}

RenderCall ==
    /\ last.op = "idle"
    /\ \E tags \in VoteLists \cup LevelLists, end \in Ends, style \in Styles \cup {"other"},
          link \in BOOLEAN :
          last' = render(tags, 0, end, style, IF link THEN "url" ELSE "", link, 0)
    /\ UNCHANGED <<table, live, ups, downs, cached>>

NextRender ==
    \/ RenderCall
    \/ Return

SpecRender == Init /\ [][NextRender]_vars


----------------------------------------------------------------------------
(* Properties of the rendering.                                               *)

\* A rendering of a list that is not empty over a window with end > start.
WellFormedRender ==
    /\ last.op = "render"
    /\ Len(last.args.tags) > 0
    /\ last.args.end > last.args.start

TreeStyles == {"alternative", "yt", "yt-text"}

\* C21: rendering a non-empty list of tags over a window with end > start
\* returns text in each of the six styles, and raises only (ValueError) for a
\* style that is not one of the six.
C21_RenderingNeverRaises ==
    WellFormedRender =>
        /\ last.args.style \in Styles => last.err = "none" /\ last.at = "return"
        /\ last.args.style \notin Styles => last.err = "ValueError" /\ last.at = "match"

\* C22: in the styles that compute stars, the star count of every tag is
\* defined and not negative, and a tag with zero or negative votes gets 0
\* stars; the computation never ends the rendering with an error.
C22_StarsNonNegative ==
    (WellFormedRender /\ last.args.style \in TreeStyles) =>
        /\ last.at # "adjusted_stars"
        /\ \A i \in DOMAIN last.args.tags :
              /\ adjusted_stars(last.args.tags[i].vote, last.args.tags).err = "none"
              /\ adjusted_stars(last.args.tags[i].vote, last.args.tags).stars >= 0
              /\ last.args.tags[i].vote <= 0 =>
                    adjusted_stars(last.args.tags[i].vote, last.args.tags).stars = 0

\* C23: among the tags of one list (one average), a tag with no more votes
\* than another has no more stars than it, whenever both star counts are defined.
C23_StarsMonotone ==
    (WellFormedRender /\ last.args.style \in TreeStyles) =>
        \A i, j \in DOMAIN last.args.tags :
            (/\ last.args.tags[i].vote <= last.args.tags[j].vote
             /\ adjusted_stars(last.args.tags[i].vote, last.args.tags).err = "none"
             /\ adjusted_stars(last.args.tags[j].vote, last.args.tags).err = "none")
            => adjusted_stars(last.args.tags[i].vote, last.args.tags).stars
                 <= adjusted_stars(last.args.tags[j].vote, last.args.tags).stars

\* The levels of the tags of the list rendered.
LevelsRendered == [i \in DOMAIN last.args.tags |-> last.args.tags[i].hier]

\* Four tags at levels 0, 1, 1, 0 have been rendered in the alternative style.
Rendered0110 ==
    /\ WellFormedRender
    /\ last.args.style = "alternative"
    /\ LevelsRendered = <<0, 1, 1, 0>>

\* C24: four tags at levels 0, 1, 1, 0 rendered in the alternative style give
\* the header and four tag lines; the line of the second tag starts with the
\* sibling mark (tee), that of the third with the closing mark (corner).
C24_ClosingMark ==
    Rendered0110 =>
        /\ last.err = "none"
        /\ Len(last.ret) = 5
        /\ last.ret[3].chars[1] = Tee
        /\ last.ret[4].chars[1] = Corner
        /\ last.ret[3].chars[1] # last.ret[4].chars[1]

C24_Witness ==
    /\ Rendered0110
    /\ last.err = "none"
    /\ last.ret[3].chars = <<Tee, Space, Space, "rest">>
    /\ last.ret[4].chars = <<Corner, Space, Space, "rest">>

\* A rendering that returned text.
RenderReturned == last.op = "render" /\ last.err = "none" /\ last.at = "return"

\* C25: the text returned starts with a header exactly when the style is not
\* yt, yt-text or csv; the header counts the tags of the list, info gives the
\* header alone, and the rate is the tenth nearest to the count divided by the
\* length of the window in minutes (1200 * count / (end - start) tenths, with
\* the window in half seconds).
C25_Header ==
    RenderReturned =>
        /\ (last.ret[1].chars = <<"header">>) <=> (last.args.style \notin {"yt", "yt-text", "csv"})
        /\ \A i \in 2 .. Len(last.ret) : last.ret[i].chars # <<"header">>
        /\ last.args.style = "info" => Len(last.ret) = 1
        /\ last.ret[1].chars = <<"header">> =>
              /\ last.ret[1].count = Len(last.args.tags)
              /\ Len(last.ret) \in {1, 1 + Len(last.args.tags)}
              /\ LET d == last.args.end - last.args.start
                     e == last.ret[1].rate * d - 1200 * Len(last.args.tags)
                 IN  2 * (IF e < 0 THEN -e ELSE e) <= (IF d < 0 THEN -d ELSE d)

C25_Witness ==
    /\ RenderReturned
    /\ last.args.style = "info"
    /\ Len(last.args.tags) = 2
    /\ last.args.end = Whole(300)
    /\ last.ret = <<[chars |-> <<"header">>, url |-> "", start |-> 0, count |-> 2, rate |-> 4]>>


----------------------------------------------------------------------------
(* End to end: two tags of guild 1 are created and voted on, then queried     *)
(* and dumped over the window [0, 300].                                       *)

\* the votes a tag of the scenario is brought to
TopVotes == 5

\* Create A (message 1, ts 100, text x) or B (message 2, ts 200, text y).
CreateCall ==
    /\ last.op = "idle"
    /\ \E c \in {<<1, 100, "x">>, <<2, 200, "y">>} :
        /\ tag(c[1], 1, Whole(c[2]), c[3], 0, FALSE, 0)
        /\ Created(c[1])

\* A +1 vote on a tag.
VoteCall ==
    /\ last.op = "idle"
    /\ \E msg_id \in MsgIds :
        /\ \A r \in WhereMsgId(msg_id) : r.votes < TopVotes
        /\ increment_vote(msg_id, 1)
        /\ UNCHANGED <<live, ups, downs, cached>>

\* Query(1, 0, 300, limit=10)
QueryCall ==
    /\ last.op = "idle"
    /\ get_tags(1, 0, Whole(300), {}, 10, FALSE, "ASC")
    /\ UNCHANGED <<live, ups, downs, cached>>

\* The dump of guild 1 over [0, 300].
DumpWindowCall ==
    /\ last.op = "idle"
    /\ dump_tags(1, 0, Whole(300), {}, 0)
    /\ UNCHANGED <<live, ups, downs, assigned_table_names, instances, pd, pd_sql, now,
                   selects, psd_sql, wrote, attempt, pending, private, last_dump, deleted, schema, holodex>>

NextEndToEnd ==
    \/ CreateCall
    \/ VoteCall
    \/ QueryCall
    \/ DumpWindowCall
    \/ Return

SpecEndToEnd == InitDump /\ [][NextEndToEnd]_vars

\* A with no votes and B with 5 votes are the tags of the store.
ScenarioDone ==
    /\ {r.msg_id : r \in table} = {1, 2}
    /\ \A r \in table : r.votes = (IF r.msg_id = 1 THEN 0 ELSE TopVotes)

\* C26: once A (ts 100, no votes) and B (ts 200, 5 votes) are stored, the
\* query of guild 1 over [0, 300] with limit 10 returns A then B, and the
\* dump of guild 1 over [0, 300] succeeds with a list whose classic rendering
\* starts with a header of 2 tags and 0.4/min.
C26_EndToEnd ==
    ScenarioDone =>
        /\ last.op = "get_tags" =>
              /\ last.err = "none"
              /\ [i \in DOMAIN last.ret |-> last.ret[i].msg_id] = <<1, 2>>
        /\ last.op = "dump_tags" =>
              /\ last.err = "none"
              /\ Len(last.ret) = 2
              /\ render(last.ret, 0, Whole(300), "classic", "", FALSE, 0).ret[1]
                    = [chars |-> <<"header">>, url |-> "", start |-> 0, count |-> 2, rate |-> 4]

\* The query part of the scenario on its own.
C26_QueryPart ==
    (ScenarioDone /\ last.op = "get_tags") =>
        /\ last.err = "none"
        /\ [i \in DOMAIN last.ret |-> last.ret[i].msg_id] = <<1, 2>>
        /\ last.ret[1].vote = 0 /\ last.ret[2].vote = TopVotes


----------------------------------------------------------------------------
(* The handlers of tag_command.py and admin_config.py, run by one event loop: *)
(* a handler runs alone up to an await, where it is suspended (it joins       *)
(* `pending`) while other handlers run, and is resumed later.                 *)
(*                                                                            *)
(* All handlers here are of guild 1.  The keys of the model's settings store  *)
(* are tuples of strings, so the guild id is written "g1" in a key, and       *)
(* channel ids are names.                                                     *)

Channels == {"c1", "c2"}

Messages == {1, 2, 3}

\* msg.channel.id: the first two messages are sent in c1, the third in c2
ChannelOf(msg_id) == IF msg_id = 3 THEN "c2" ELSE "c1"

PrivateKey == <<"private_txtchn", "g1">>

QuietKey == <<"quiet", "g1">>

\* self.configs.get(keys, ()) on a snapshot that has been refreshed
ConfigsGet(self, keys) == IF keys \in DOMAIN self._store THEN self._store[keys] ELSE {}

\* Tagging.tag from def_offset on, with hidden always False.
tag_store_public(msg_id, author_id) ==
    /\ psd' = Populated(psd)
    /\ tag(msg_id, 1, 0, "x", author_id, FALSE, 0)
    /\ live' = IF last'.err = "none" THEN live \cup {msg_id} ELSE live

\* Tagging.tag from def_offset on: hidden is read from the settings and the
\* tag is stored, with no await in between.
tag_store(msg_id, author_id) ==
    /\ psd' = Populated(psd)
    /\ tag(msg_id, 1, 0, "x", author_id,
           ChannelOf(msg_id) \in ConfigsGet(Populated(psd), PrivateKey), 0)
    /\ live' = IF last'.err = "none" THEN live \cup {msg_id} ELSE live

\* Tagging.tag called for a message: with reactions and not quiet it awaits
\* the two add_reaction calls, otherwise it goes on to store the tag.
TagBegin ==
    /\ last.op = "idle"
    /\ \E msg_id \in Messages \ (live \cup {p.msg_id : p \in pending}), author_id \in Authors,
          reactions \in BOOLEAN :
          IF reactions /\ ConfigsGet(Populated(psd), QuietKey) = {}
          THEN /\ psd' = Populated(psd)
               /\ pending' = pending \cup {[h |-> "tag", msg_id |-> msg_id,
                                            author_id |-> author_id]}
               /\ UNCHANGED <<table, last, live>>
          ELSE /\ tag_store(msg_id, author_id)
               /\ UNCHANGED pending
    /\ UNCHANGED <<ups, downs, assigned_table_names, instances, pd, pd_sql, now, selects,
                   psd_sql, wrote, attempt, private, last_dump, deleted, schema, holodex>>

\* The event loop resumes Tagging.tag after the reactions.
TagResume ==
    /\ last.op = "idle"
    /\ \E p \in {q \in pending : q.h = "tag"} :
        /\ tag_store(p.msg_id, p.author_id)
        /\ pending' = pending \ {p}
    /\ UNCHANGED <<ups, downs, assigned_table_names, instances, pd, pd_sql, now, selects,
                   psd_sql, wrote, attempt, private, last_dump, deleted, schema, holodex>>

\* Settings.set_private: the settings are changed before the reply is awaited.
SetPrivateCall ==
    /\ last.op = "idle"
    /\ \E channel \in Channels, mark \in BOOLEAN :
        /\ IF mark THEN psd_add(PrivateKey, channel) ELSE psd_remove(PrivateKey, channel)
        /\ private' = IF mark THEN private \cup {channel} ELSE private \ {channel}
    /\ UNCHANGED <<table, live, ups, downs, assigned_table_names, instances, pd, pd_sql, now,
                   selects, attempt, pending, last_dump, deleted, schema, holodex>>

\* The bot is stopped and started again: the suspended handlers are gone, the
\* settings object is constructed again over its table.
RestartBot ==
    /\ last.op = "idle"
    /\ psd # FreshSetDict(psd) \/ pending # {}
    /\ psd' = FreshSetDict(psd)
    /\ wrote' = NoRows
    /\ pending' = {}
    /\ UNCHANGED <<table, last, live, ups, downs, assigned_table_names, instances,
                   pd, pd_sql, now, selects, psd_sql, attempt, private, last_dump, deleted, schema, holodex>>

\* Another server dumps the tags of guild 1.
StealCall ==
    /\ last.op = "idle"
    /\ \E end \in {0, Whole(1)} : dump_tags(1, 0, end, {}, 0)
    /\ UNCHANGED <<live, ups, downs, assigned_table_names, instances, pd, pd_sql, now,
                   selects, psd_sql, wrote, attempt, pending, private, last_dump, deleted, schema, holodex>>

NextPrivate ==
    \/ TagBegin
    \/ TagResume
    \/ SetPrivateCall
    \/ UpdateTextCall
    \/ StealCall
    \/ RestartBot
    \/ Return

SpecPrivate == InitDump /\ [][NextPrivate]_vars

\* The tag of a message, as a set.
TagOf(msg_id) == {r \in table : r.msg_id = msg_id}

\* C27: a tag is stored hidden exactly when its channel is marked private at
\* the moment it is stored; marking, un-marking and every other step leave the
\* hidden flag of a stored tag as it is; and no dump of the guild's tags, nor
\* the query a dump makes, returns a hidden tag.
C27_PrivateChannel ==
    /\ [](/\ \A res \in Fetchall(1, 0, Whole(1), {}, FetchLimit, FALSE, "ASC") :
                \A i \in DOMAIN res : \A r \in TagOf(res[i].msg_id) : ~r.hidden
          /\ last.op = "dump_tags" =>
                \A i \in DOMAIN last.ret : \A r \in TagOf(last.ret[i].msg_id) : ~r.hidden)
    /\ [][\A msg_id \in Messages : \A r \in {x \in table' : x.msg_id = msg_id} :
             IF TagOf(msg_id) = {}
             THEN r.hidden = (ChannelOf(msg_id) \in private)
             ELSE \A x \in TagOf(msg_id) : x.hidden = r.hidden]_vars

\* c1 was marked after message 1 and before message 2, and is un-marked again:
\* the tag of message 1 is visible, that of message 2 hidden.
C27_Witness ==
    /\ private = {}
    /\ last_dump = <<>>
    /\ deleted = <<>>
    /\ schema = [exists |-> TRUE, hierarchy |-> TRUE, user_version |-> 2, con |-> TRUE]
    /\ holodex = [sem |-> 1, waiters |-> <<>>, backoffs |-> 0, cooldowns |-> 0, returned |-> <<>>]
    /\ \E r \in TagOf(1) : ~r.hidden
    /\ \E r \in TagOf(2) : r.hidden
    /\ \E r \in TagOf(3) : ~r.hidden


----------------------------------------------------------------------------
(* Tagging.adjust.  Message ids grow with the time of creation, so the tag an *)
(* author created last is the one of theirs with the greatest msg_id.         *)

\* the offsets given to adjust, in seconds
Offsets == {-3, -1, 1}

\* timestamps stay within MinTs .. MaxTs seconds; they are seconds since the
\* epoch, so none gets below the start of the window of adjust, which is 0
MinTs == 0

MaxTs == 8

\* time.time() + 2 * 60 * 60, later than every timestamp here
TwoHoursAhead == Whole(7200)

\* adjust: the first tag of the author in descending order of timestamp is
\* moved by offset; nothing happens when the author has no tag in the window.
adjust(author_id, offset) ==
    \E last_tags \in Fetchall(1, 0, TwoHoursAhead, {author_id}, 1, FALSE, "DESC") :
        IF Len(last_tags) > 0
        THEN /\ last_tags[1].ts + offset \in MinTs .. MaxTs
             /\ table' = {IF r.msg_id = last_tags[1].msg_id
                          THEN [r EXCEPT !.timestamp_ = int(Whole(last_tags[1].ts + offset))]
                          ELSE r : r \in table}
             /\ last' = Outcome("adjust", [author_id |-> author_id, offset |-> offset],
                                "none", <<last_tags[1].msg_id>>)
        ELSE /\ table' = table
             /\ last' = Outcome("adjust", [author_id |-> author_id, offset |-> offset],
                                "none", <<>>)

AdjustCall ==
    /\ last.op = "idle"
    /\ \E author_id \in Authors, offset \in Offsets : adjust(author_id, offset)
    /\ UNCHANGED <<live, ups, downs, cached>>

\* Messages are tagged in the order of their ids, two seconds apart.
TagCallAdjust ==
    /\ last.op = "idle"
    /\ \E msg_id \in Messages, author_id \in Authors :
        /\ \A r \in table : r.msg_id < msg_id
        /\ tag(msg_id, 1, Whole(2 * msg_id), "x", author_id, FALSE, 0)
        /\ Created(msg_id)

NextAdjust ==
    \/ TagCallAdjust
    \/ AdjustCall
    \/ Return

SpecAdjust == Init /\ [][NextAdjust]_vars

\* The tags of an author in guild 1.
TagsBy(author_id) == {r \in table : r.guild = 1 /\ r.author = author_id}

\* C28: every adjust(offset) of an author who has tags moves the timestamp of
\* the tag that author created last by offset and changes no other tag, so
\* that two adjusts with no tag created in between add up on the same tag.
C28_AdjustLastTag ==
    [][(last'.op = "adjust" /\ TagsBy(last'.args.author_id) # {}) =>
          \E t \in TagsBy(last'.args.author_id) :
              /\ \A x \in TagsBy(last'.args.author_id) : x.msg_id <= t.msg_id
              /\ table' = (table \ {t})
                             \cup {[t EXCEPT !.timestamp_ = @ + last'.args.offset]}]_vars


\* The same for an author whose id is not 0 (for author 0 the query of adjust
\* is not filtered by author at all).
C28_AdjustLastTagOfAuthor ==
    [][(last'.op = "adjust" /\ last'.args.author_id # 0
        /\ TagsBy(last'.args.author_id) # {}) =>
          \E t \in TagsBy(last'.args.author_id) :
              /\ \A x \in TagsBy(last'.args.author_id) : x.msg_id <= t.msg_id
              /\ table' = (table \ {t})
                             \cup {[t EXCEPT !.timestamp_ = @ + last'.args.offset]}]_vars


----------------------------------------------------------------------------
(* streams.py: the tasks of _update_chn_list on the PersistentDict            *)
(* channels_list.  A task is suspended in holodex_req; what follows the       *)
(* await (the read of the known urls, the union and the write) has no await   *)
(* in it, and neither has any method of the PersistentDict.                   *)

\* Sets of urls: "" is the empty set, "ab" the union of "a" and "b".
Union(x, y) == IF x = "" THEN y ELSE IF y = "" \/ x = y THEN x ELSE "ab"

Tasks == {[h |-> "update", chn_id |-> k, n |-> n] : k \in {"k1", "k2"}, n \in {1, 2}}

\* The rest of _update_chn_list with a write that reaches the snapshot only.
update_chn_list_uncommitted(p, learnt) ==
    LET self == Refreshed(pd)
        known == IF p.chn_id \in DOMAIN self._store THEN self._store[p.chn_id] ELSE ""
        value == Union(known, learnt)
    IN  /\ selects' = IF pd_calc_cache_staleness(pd)._cache_valid THEN selects ELSE selects + 1
        /\ pd_sql' = pd_sql
        /\ pd' = [self EXCEPT !._store = Put(@, p.chn_id, value)]
        /\ wrote' = Put(wrote, p.chn_id, [op |-> "set", v |-> value])
        /\ last' = Outcome("pd_setitem", <<p.chn_id, value>>, "none", <<>>)

\* The rest of _update_chn_list once holodex_req has returned the learnt urls:
\* channels_list.get(chn_id, ...) refreshes the snapshot and reads it, and
\* channels_list[chn_id] = ... writes the union to the table and the snapshot.
update_chn_list(p, learnt) ==
    LET self == Refreshed(pd)
        known == IF p.chn_id \in DOMAIN self._store THEN self._store[p.chn_id] ELSE ""
        value == Union(known, learnt)
    IN  /\ selects' = IF pd_calc_cache_staleness(pd)._cache_valid THEN selects ELSE selects + 1
        /\ IF ~(p.chn_id = literal_eval(repr(p.chn_id))
                /\ value = load_v(self, dump_v(self, value)))
           THEN /\ pd' = self
                /\ last' = Outcome("pd_setitem", <<p.chn_id, value>>, "ValueError", <<>>)
                /\ UNCHANGED <<pd_sql, wrote>>
           ELSE /\ pd_sql' = {r \in pd_sql : r.key_ # repr(p.chn_id)}
                                \cup {[key_ |-> repr(p.chn_id), value_ |-> dump_v(self, value)]}
                /\ pd' = [self EXCEPT !._store = Put(@, p.chn_id, value)]
                /\ wrote' = Put(wrote, p.chn_id, [op |-> "set", v |-> value])
                /\ last' = Outcome("pd_setitem", <<p.chn_id, value>>, "none", <<>>)

\* A task is started and runs up to its await.
UpdateBegin ==
    /\ last.op = "idle"
    /\ \E p \in Tasks \ pending : pending' = pending \cup {p}
    /\ UNCHANGED <<table, last, live, ups, downs, assigned_table_names, instances, pd, pd_sql,
                   now, selects, psd, psd_sql, wrote, attempt, private, last_dump, deleted, schema, holodex>>

\* The event loop resumes a task.
UpdateResume ==
    /\ last.op = "idle"
    /\ \E p \in {q \in pending : q.h = "update"}, learnt \in {"a", "b"} :
        /\ update_chn_list(p, learnt)
        /\ pending' = pending \ {p}
    /\ UNCHANGED <<table, live, ups, downs, assigned_table_names, instances, now, psd, psd_sql,
                   attempt, private, last_dump, deleted, schema, holodex>>

NextTasks ==
    \/ UpdateBegin
    \/ UpdateResume
    \/ GetItemCall
    \/ IterCall
    \/ Tick
    \/ Return

SpecTasks == InitDict /\ [][NextTasks]_vars

\* C29: whatever the order in which the event loop runs the handlers and
\* resumes the suspended tasks, the last value written to a key is in the
\* table, a read of the key (with the rebuild of the snapshot it may start)
\* finds it, and a get of the key returns it.
C29_NoLostWrite ==
    \A k \in DOMAIN wrote :
        /\ [key_ |-> repr(k), value_ |-> dump_v(pd, wrote[k].v)] \in pd_sql
        /\ k \in DOMAIN Refreshed(pd)._store
        /\ Refreshed(pd)._store[k] = wrote[k].v
        /\ (last.op = "pd_getitem" /\ last.args = <<k>>) => last.ret = <<wrote[k].v>>

\* Two tasks were suspended together and have both written k1, the snapshot
\* has been rebuilt after the first build, and a get returns the union.
C29_Witness ==
    /\ pending = {}
    /\ selects >= 2
    /\ "k1" \in DOMAIN wrote
    /\ wrote["k1"].v = "ab"
    /\ last.op = "pd_getitem"
    /\ last.ret = <<"ab">>


----------------------------------------------------------------------------
(* Tagging.on_reaction_add and on_reaction_remove.  The library starts one    *)
(* task per event; the tasks dispatched and not yet run are in `pending` and  *)
(* run in any order.  Neither handler has an await: it runs as one step.      *)

Emojis == {"star", "cross"}

Reactions ==
    {[h |-> h, msg_id |-> m, emoji |-> e, bot |-> b] :
        h \in {"reaction_add", "reaction_remove"}, m \in MsgIds, e \in Emojis, b \in BOOLEAN}

\* at most this many reaction events wait to be run
MaxPending == 2

\* on_reaction_add; may_delete is `reaction.message.author == user or is_admin`
on_reaction_add(ev, may_delete) ==
    IF ~ev.bot /\ ev.emoji = "star" /\ Contains(ev.msg_id)
    THEN /\ increment_vote(ev.msg_id, 1)
         /\ ups' = [ups EXCEPT ![ev.msg_id] = @ + 1]
         /\ UNCHANGED <<downs, live>>
    ELSE IF ~ev.bot /\ ev.emoji = "cross" /\ may_delete /\ Contains(ev.msg_id)
    THEN /\ remove(ev.msg_id)
         /\ live' = live \ {ev.msg_id}
         /\ ups' = [ups EXCEPT ![ev.msg_id] = 0]
         /\ downs' = [downs EXCEPT ![ev.msg_id] = 0]
    ELSE UNCHANGED <<table, last, live, ups, downs>>

\* on_reaction_remove that takes a star back only from a tag with votes above 0
on_reaction_remove_floor(ev) ==
    IF ~ev.bot /\ ev.emoji = "star" /\ Contains(ev.msg_id)
    THEN /\ increment_vote(ev.msg_id, IF \A r \in WhereMsgId(ev.msg_id) : r.votes > 0
                                      THEN -1 ELSE 0)
         /\ downs' = [downs EXCEPT ![ev.msg_id] = @ + 1]
         /\ UNCHANGED <<ups, live>>
    ELSE UNCHANGED <<table, last, live, ups, downs>>

on_reaction_remove(ev) ==
    IF ~ev.bot /\ ev.emoji = "star" /\ Contains(ev.msg_id)
    THEN /\ increment_vote(ev.msg_id, -1)
         /\ downs' = [downs EXCEPT ![ev.msg_id] = @ + 1]
         /\ UNCHANGED <<ups, live>>
    ELSE UNCHANGED <<table, last, live, ups, downs>>

\* An event arrives and its task is created.
ReactionDispatch ==
    /\ Cardinality(pending) < MaxPending
    /\ \E ev \in Reactions \ pending : pending' = pending \cup {ev}
    /\ UNCHANGED <<table, last, live, ups, downs, assigned_table_names, instances, pd, pd_sql,
                   now, selects, psd, psd_sql, wrote, attempt, private, last_dump, deleted, schema, holodex>>

\* The event loop runs the task of an event; the stars counted per tag stay
\* within MaxVoteCalls.
ReactionRun ==
    /\ last.op = "idle"
    /\ \E ev \in {q \in pending : q.h \in {"reaction_add", "reaction_remove"}} :
        /\ ups[ev.msg_id] < MaxVoteCalls /\ downs[ev.msg_id] < MaxVoteCalls
        /\ IF ev.h = "reaction_add"
           THEN \E may_delete \in BOOLEAN : on_reaction_add(ev, may_delete)
           ELSE on_reaction_remove(ev)
        /\ pending' = pending \ {ev}
    /\ UNCHANGED <<assigned_table_names, instances, pd, pd_sql, now, selects, psd, psd_sql,
                   wrote, attempt, private, last_dump, deleted, schema, holodex>>

NextReactions ==
    \/ TagCallVotes
    \/ ReactionDispatch
    \/ ReactionRun
    \/ Return

SpecReactions == Init /\ [][NextReactions]_vars

\* C30: in whatever order the reaction events on a tag are run, the votes of
\* the tag are its votes at creation (0) plus the star additions run minus the
\* star removals run, and every step changes the votes of a tag by exactly the
\* additions less the removals it runs.
C30_NoLostVote ==
    /\ [](\A r \in table : r.votes = ups[r.msg_id] - downs[r.msg_id])
    /\ [][\A r \in table : \A x \in {y \in table' : y.msg_id = r.msg_id} :
             x.votes - r.votes
                = (ups'[r.msg_id] - ups[r.msg_id]) - (downs'[r.msg_id] - downs[r.msg_id])]_vars

\* All events have run: a tag got one star and lost MaxVoteCalls.
C30_Witness ==
    /\ pending = {}
    /\ last.op = "increment_vote"
    /\ \E r \in table :
          /\ ups[r.msg_id] = 1
          /\ downs[r.msg_id] = MaxVoteCalls
          /\ r.votes = 1 - MaxVoteCalls


----------------------------------------------------------------------------
(* Properties of the tree drawing.                                            *)

\* A rendering in a tree style that returned text.
TreeReturned == RenderReturned /\ last.args.style \in TreeStyles

\* The line of the i-th tag: the header comes first in the alternative style.
TagLine(i) == last.ret[i + (IF last.args.style = "alternative" THEN 1 ELSE 0)]

\* The number of blank glyphs a line starts with.
RECURSIVE LeadingBlanks(_)
LeadingBlanks(chars) ==
    IF chars # <<>> /\ Head(chars) = Blank THEN 1 + LeadingBlanks(Tail(chars)) ELSE 0

\* min(curr, prev) for the i-th tag of the list rendered
MinLevel(i) ==
    IF Levels(last.args.tags)[i] < Levels(last.args.tags)[i + 1]
    THEN Levels(last.args.tags)[i] ELSE Levels(last.args.tags)[i + 1]

\* C31 as stated: every tag line of a tree rendering starts with exactly
\* min(curr, prev) blank glyphs.
C31_IndentWidth ==
    TreeReturned =>
        \A i \in DOMAIN last.args.tags : LeadingBlanks(TagLine(i).chars) = MinLevel(i)

\* C31: pre is built with min(curr, prev) blank glyphs, and the first character
\* of every line is cut: a tag line of a tree rendering starts with
\* min(curr, prev) - 1 blank glyphs, and with none when min(curr, prev) is 0.
C31_IndentWidthCut ==
    TreeReturned =>
        \A i \in DOMAIN last.args.tags :
            /\ LeadingBlanks(Pre(Levels(last.args.tags)[i], Levels(last.args.tags)[i + 1],
                                 Levels(last.args.tags)[i + 2])) = MinLevel(i)
            /\ LeadingBlanks(TagLine(i).chars)
                  = (IF MinLevel(i) > 0 THEN MinLevel(i) - 1 ELSE 0)

\* A tag at level 2 after a tag at level 2 is rendered with one blank glyph.
C31_Witness ==
    /\ TreeReturned
    /\ \E i \in DOMAIN last.args.tags :
          /\ MinLevel(i) = 2
          /\ LeadingBlanks(TagLine(i).chars) = 1

\* The branches taken by the tags of the list rendered.
BranchesTaken ==
    {Branch(Levels(last.args.tags)[i], Levels(last.args.tags)[i + 1],
            Levels(last.args.tags)[i + 2]) : i \in DOMAIN last.args.tags}

\* The branches that some tag of some list of levels 0 .. MaxLevel takes.
BranchesReachable ==
    {Branch(Levels(tags)[i], Levels(tags)[i + 1], Levels(tags)[i + 2]) :
        <<tags, i>> \in {<<t, j>> \in LevelLists \X (1 .. 4) : j <= Len(t)}}

\* C32 as stated: each of the nine branches, the fallback included, is taken
\* by some tag of some list of levels 0 .. MaxLevel or of the list rendered.
C32_AllNineBranches ==
    \A b \in 1 .. 9 :
        \/ b \in BranchesReachable
        \/ last.op = "render" /\ Len(last.args.tags) > 0 /\ b \in BranchesTaken

\* C32: each of the first eight branches is taken by some tag of some list,
\* and no tag of any list rendered takes the fallback (branch 9).
C32_EightBranches ==
    /\ BranchesReachable = 1 .. 8
    /\ last.op = "render" /\ Len(last.args.tags) > 0 => BranchesTaken \subseteq 1 .. 8

\* Levels 0, 1, 2, 0: the tags take branches 1, 7, 8 and 4.
C32_Witness ==
    /\ TreeReturned
    /\ LevelsRendered = <<0, 1, 2, 0>>
    /\ BranchesTaken = {1, 4, 7, 8}


----------------------------------------------------------------------------
(* Tagging.parse_ticks, on_message, the tag command and on_raw_message_edit.  *)
(* A content is a sequence of characters; "x" is any character other than a   *)
(* backtick ("tick") or a space.  The text stored is the rest of the content. *)

\* contents have up to MaxContent characters
MaxContent == 3

Contents == UNION {[1 .. n -> {"tick", " ", "x"}] : n \in 0 .. MaxContent}

\* The characters the loop of parse_ticks passes before it breaks.
RECURSIVE Lead(_)
Lead(content) ==
    IF content # <<>> /\ Head(content) \in {"tick", " "}
    THEN <<Head(content)>> \o Lead(Tail(content))
    ELSE <<>>

Count(c, s) == Cardinality({i \in DOMAIN s : s[i] = c})

\* parse_ticks that returns the number of backticks as the hierarchy
parse_ticks_count(content) ==
    IF Count("tick", Lead(content)) = 0
    THEN [err |-> "ValueError", text |-> <<>>, h |-> 0]
    ELSE [err |-> "none",
          text |-> SubSeq(content, Len(Lead(content)) + 1, Len(content)),
          h |-> Count("tick", Lead(content))]

\* parse_ticks: ticks and spaces are counted up to the first other character;
\* content[ticks + spaces :] and ticks - 1 are returned, ValueError without a tick.
parse_ticks(content) ==
    IF Count("tick", Lead(content)) = 0
    THEN [err |-> "ValueError", text |-> <<>>, h |-> 0]
    ELSE [err |-> "none",
          text |-> SubSeq(content, Len(Lead(content)) + 1, Len(content)),
          h |-> Count("tick", Lead(content)) - 1]

AllowBotsKey == <<"allow_bots", "g1">>

\* Tagging.tag up to its await, for a text and a hierarchy: with reactions (the
\* default of both callers) and not quiet, the handler is suspended.
tag_text_begin(msg_id, content, text, hierarchy, command) ==
    IF ConfigsGet(Populated(psd), QuietKey) = {}
    THEN /\ pending' = pending \cup {[h |-> "tag_text", msg_id |-> msg_id, content |-> content,
                                      text |-> text, hier |-> hierarchy, command |-> command]}
         /\ UNCHANGED <<table, last, live>>
    ELSE /\ tag(msg_id, 1, 0, text, 1,
                ChannelOf(msg_id) \in ConfigsGet(Populated(psd), PrivateKey), hierarchy)
         /\ live' = IF last'.err = "none" THEN live \cup {msg_id} ELSE live
         /\ UNCHANGED pending

\* on_message of a guild message by the bot itself, another bot or a user.
OnMessage ==
    /\ last.op = "idle"
    /\ \E msg_id \in MsgIds \ (live \cup {p.msg_id : p \in pending}), content \in Contents,
          author \in {"self", "bot", "user"} :
          IF author = "self"
          THEN UNCHANGED <<table, last, live, pending, psd>>
          ELSE IF author = "bot" /\ TRUE \notin ConfigsGet(Populated(psd), AllowBotsKey)
          THEN psd' = Populated(psd) /\ UNCHANGED <<table, last, live, pending>>
          ELSE IF parse_ticks(content).err # "none"
          THEN psd' = (IF author = "bot" THEN Populated(psd) ELSE psd)
               /\ UNCHANGED <<table, last, live, pending>>
          ELSE /\ psd' = Populated(psd)
               /\ tag_text_begin(msg_id, content, parse_ticks(content).text,
                                 parse_ticks(content).h, FALSE)
    /\ UNCHANGED <<ups, downs, assigned_table_names, instances, pd, pd_sql, now, selects,
                   psd_sql, wrote, attempt, private, last_dump, deleted, schema, holodex>>

\* The tag command: Tagging.tag with the text given and the default hierarchy.
TagCommand ==
    /\ last.op = "idle"
    /\ \E msg_id \in MsgIds \ (live \cup {p.msg_id : p \in pending}) :
          /\ psd' = Populated(psd)
          /\ tag_text_begin(msg_id, <<"x">>, <<"x">>, 0, TRUE)
    /\ UNCHANGED <<ups, downs, assigned_table_names, instances, pd, pd_sql, now, selects,
                   psd_sql, wrote, attempt, private, last_dump, deleted, schema, holodex>>

\* The event loop resumes Tagging.tag: hidden is read and the tag is stored.
TagTextResume ==
    /\ last.op = "idle"
    /\ \E p \in {q \in pending : q.h = "tag_text"} :
        /\ psd' = Populated(psd)
        /\ tag(p.msg_id, 1, 0, p.text, 1,
               ChannelOf(p.msg_id) \in ConfigsGet(Populated(psd), PrivateKey), p.hier)
        /\ live' = IF last'.err = "none" THEN live \cup {p.msg_id} ELSE live
        /\ pending' = pending \ {p}
    /\ UNCHANGED <<ups, downs, assigned_table_names, instances, pd, pd_sql, now, selects,
                   psd_sql, wrote, attempt, private, last_dump, deleted, schema, holodex>>

\* on_raw_message_edit: a content that is not empty, of a message that is a
\* tag, is parsed, and update_text stores its text and hierarchy.
on_raw_message_edit(msg_id, content) ==
    IF content # <<>> /\ Contains(msg_id) /\ parse_ticks(content).err = "none"
    THEN /\ table' = {IF r.msg_id = msg_id
                      THEN [r EXCEPT !.message = parse_ticks(content).text,
                                     !.hierarchy = parse_ticks(content).h]
                      ELSE r : r \in table}
         /\ last' = Outcome("on_raw_message_edit", [msg_id |-> msg_id, content |-> content],
                            "none", <<"update_text">>)
    ELSE /\ table' = table
         /\ last' = Outcome("on_raw_message_edit", [msg_id |-> msg_id, content |-> content],
                            "none", <<>>)

OnRawMessageEdit ==
    /\ last.op = "idle"
    /\ \E msg_id \in MsgIds, content \in Contents : on_raw_message_edit(msg_id, content)
    /\ UNCHANGED <<live, ups, downs, cached>>

NextMessages ==
    \/ OnMessage
    \/ TagCommand
    \/ TagTextResume
    \/ OnRawMessageEdit
    \/ Return

SpecMessages == InitDump /\ [][NextMessages]_vars

\* The number of backticks a content starts with.
RECURSIVE LeadingTicks(_)
LeadingTicks(content) ==
    IF content # <<>> /\ Head(content) = "tick" THEN 1 + LeadingTicks(Tail(content)) ELSE 0

\* The number of backticks among the backticks and spaces a content starts with.
Ticks(content) == Count("tick", Lead(content))

\* C33 as stated: every tag has hierarchy >= 0; a message becomes a tag only
\* if it starts with a backtick, with hierarchy (leading backticks) - 1; a tag
\* of the tag command has hierarchy 0; an edit stores (leading backticks) - 1
\* and leaves the tag as it is when the new content starts with no backtick.
C33_HierarchyFromTicks ==
    /\ [](\A r \in table : r.hierarchy >= 0)
    /\ [][/\ \A p \in pending \ pending' : p.h = "tag_text" =>
                /\ ~p.command => LeadingTicks(p.content) >= 1
                /\ \A r \in table' \ table :
                      r.hierarchy = (IF p.command THEN 0 ELSE LeadingTicks(p.content) - 1)
          /\ last'.op = "on_raw_message_edit" =>
                IF LeadingTicks(last'.args.content) = 0
                THEN table' = table
                ELSE \A r \in {x \in table' : x.msg_id = last'.args.msg_id} :
                        r.hierarchy = LeadingTicks(last'.args.content) - 1]_vars

\* C33: every tag has hierarchy >= 0; a message becomes a tag only if there is
\* a backtick among the backticks and spaces it starts with, with hierarchy
\* (number of those backticks) - 1; a tag of the tag command has hierarchy 0;
\* an edit of a tag stores (number of those backticks) - 1 and leaves the tag
\* as it is when there is no such backtick.
C33_HierarchyFromLead ==
    /\ [](\A r \in table : r.hierarchy >= 0)
    /\ [][/\ \A p \in pending \ pending' : p.h = "tag_text" =>
                /\ ~p.command => Ticks(p.content) >= 1
                /\ \A r \in table' \ table :
                      r.hierarchy = (IF p.command THEN 0 ELSE Ticks(p.content) - 1)
          /\ last'.op = "on_raw_message_edit" =>
                IF Ticks(last'.args.content) = 0
                THEN table' = table
                ELSE \A r \in {x \in table' : x.msg_id = last'.args.msg_id} :
                        r.hierarchy = Ticks(last'.args.content) - 1]_vars

\* A tag has been edited to a content of two backticks with a space between
\* them, and has hierarchy 1.
C33_Witness ==
    /\ last.op = "on_raw_message_edit"
    /\ last.args.content = <<"tick", " ", "tick">>
    /\ \E r \in table : r.msg_id = last.args.msg_id /\ r.hierarchy = 1 /\ r.message = <<>>


----------------------------------------------------------------------------
(* Coherence of the snapshot of the PersistentSetDict.                        *)

\* C34: once the snapshot of the PersistentSetDict has been built, its keys
\* and the members of each bucket are those that a rebuild from the table
\* yields, so that a restart changes nothing that a read returns.
C34_CacheCoherent ==
    (psd # NoInstance /\ psd._cache_valid) =>
        /\ DOMAIN psd._store = DOMAIN psd_populate_from_sql(psd)._store
        /\ \A keys \in DOMAIN psd._store :
              psd._store[keys] = psd_populate_from_sql(psd)._store[keys]


----------------------------------------------------------------------------
(* A message is made a tag while reactions on it arrive: the handlers of      *)
(* tags and of reactions above, run by the one event loop.                    *)

NextCreateVotes ==
    \/ TagBegin
    \/ TagResume
    \/ ReactionDispatch
    \/ ReactionRun
    \/ Return

SpecCreateVotes == InitDump /\ [][NextCreateVotes]_vars

\* The handler that makes the message a tag is suspended at its await.
Creating(msg_id) == \E p \in pending : p.h = "tag" /\ p.msg_id = msg_id

\* C35: every star that a user who is not a bot adds to a message that is a
\* tag, or that is being made one by a suspended handler, is counted in the
\* votes of the tag, and once all handlers have finished the votes of a tag
\* are the stars counted as added less those counted as removed.
C35_StarsCounted ==
    /\ [](pending = {} => \A r \in table : r.msg_id \in MsgIds =>
                             r.votes = ups[r.msg_id] - downs[r.msg_id])
    /\ [][\A ev \in pending \ pending' :
             (/\ ev.h = "reaction_add" /\ ~ev.bot /\ ev.emoji = "star"
              /\ Contains(ev.msg_id) \/ Creating(ev.msg_id))
             => ups'[ev.msg_id] = ups[ev.msg_id] + 1]_vars


----------------------------------------------------------------------------
(* adjust after tags made in private channels: the tags of TagCallAdjust,     *)
(* hidden or not.                                                             *)

TagCallHidden ==
    /\ last.op = "idle"
    /\ \E msg_id \in Messages, author_id \in Authors, hidden \in BOOLEAN :
        /\ \A r \in table : r.msg_id < msg_id
        /\ tag(msg_id, 1, Whole(2 * msg_id), "x", author_id, hidden, 0)
        /\ Created(msg_id)

NextAdjustHidden ==
    \/ TagCallHidden
    \/ AdjustCall
    \/ Return

SpecAdjustHidden == Init /\ [][NextAdjustHidden]_vars

\* C36: every adjust(offset) of an author who has tags in the guild moves a
\* tag of that author than which the author has none with a greater
\* timestamp, hidden or not, and changes no other tag.
C36_AdjustHiddenToo ==
    [][(/\ last'.op = "adjust"
        /\ last'.args.author_id # 0
        /\ TagsBy(last'.args.author_id) # {}) =>
          \E t \in TagsBy(last'.args.author_id) :
              /\ \A x \in TagsBy(last'.args.author_id) : x.timestamp_ <= t.timestamp_
              /\ table' = (table \ {t})
                             \cup {[t EXCEPT !.timestamp_ = @ + last'.args.offset]}]_vars


----------------------------------------------------------------------------
(* The dump of a guild whose tags were made in private channels.              *)

NextDumpHidden ==
    \/ TagCallHidden
    \/ DumpWindowCall
    \/ Return

SpecDumpHidden == InitDump /\ [][NextDumpHidden]_vars

\* C37: a dump of a guild, asked for no author and no least number of stars,
\* succeeds with a list that has every hidden tag which that guild has
\* strictly inside the window of the dump.
C37_DumpIncludesHidden ==
    (/\ last.op = "dump_tags"
     /\ last.args.author_id = {}
     /\ last.args.min_stars = 0) =>
        \A r \in table :
            (/\ r.guild = last.args.guild_id
             /\ r.hidden
             /\ last.args.start < Whole(r.timestamp_)
             /\ Whole(r.timestamp_) < last.args.end) =>
                /\ last.err = "none"
                /\ \E i \in DOMAIN last.ret : last.ret[i].msg_id = r.msg_id


----------------------------------------------------------------------------
(* The last dump of a channel and the command that deletes it                 *)
(* (tag_command.py:419-433, 555-567).  The messages that the bot sends are    *)
(* numbered in the order in which they are sent.  A delete command is         *)
(* suspended at `await msg.delete()` holding the message it has popped; the   *)
(* request succeeds or discord refuses it (the message is gone already).      *)
(* A dump whose last assignment ran while a delete of the same channel is     *)
(* suspended would leave that delete with the set that was replaced: the      *)
(* dumps taken here end while no delete of their channel is suspended.        *)

\* a dump is sent as at most MaxEmbeds messages
MaxEmbeds == 2
\* the bot sends at most MaxSent messages
MaxSent == 4

\* self.last_dump.get(ctx_it.channel.id), None taken as the empty set
last_dump_get(chn) == IF chn \in DOMAIN last_dump THEN last_dump[chn] ELSE {}

pop_peek(chn, msg) ==
    /\ msg \in last_dump_get(chn)
    /\ last_dump' = last_dump

\* msg = last_msg.pop(): any member of the set is taken out of it
pop(chn, msg) ==
    /\ msg \in last_dump_get(chn)
    /\ last_dump' = [last_dump EXCEPT ![chn] = @ \ {msg}]

\* The tail of Tagging.tags_hybrid after a dump was made: the embeds are sent
\* and the set of the sent messages replaces the last dump of the channel.
DumpSend ==
    /\ last.op = "idle"
    /\ \E chn \in Channels, n \in 1 .. MaxEmbeds :
        /\ ~\E p \in pending : p.h = "delete" /\ p.channel = chn
        /\ Len(deleted) + n <= MaxSent
        /\ last_dump' = (chn :> ((Len(deleted) + 1) .. (Len(deleted) + n))) @@ last_dump
        /\ deleted' = deleted \o [i \in 1 .. n |-> 0]
        /\ last' = Outcome("dump", [channel |-> chn], "none", <<>>)
    /\ UNCHANGED <<table, live, ups, downs, assigned_table_names, instances, pd, pd_sql, now,
                   selects, psd, psd_sql, wrote, attempt, pending, private, schema, holodex>>

\* The delete command up to its first await; ctx is the invoking command.
DeleteBegin ==
    /\ last.op = "idle"
    /\ Cardinality(pending) < MaxPending
    /\ \E chn \in Channels, ctx \in (1 .. MaxPending) \ {p.ctx : p \in pending} :
        IF last_dump_get(chn) = {}
        THEN /\ last' = Outcome("delete", [channel |-> chn], "none", <<>>)
             /\ UNCHANGED <<pending, last_dump>>
        ELSE \E msg \in last_dump_get(chn) :
                /\ pop(chn, msg)
                /\ pending' = pending \cup {[h |-> "delete", ctx |-> ctx,
                                             channel |-> chn, msg |-> msg]}
                /\ UNCHANGED last
    /\ UNCHANGED <<table, live, ups, downs, assigned_table_names, instances, pd, pd_sql, now,
                   selects, psd, psd_sql, wrote, attempt, private, deleted, schema, holodex>>

\* The event loop resumes a delete command after msg.delete().
DeleteResume ==
    /\ last.op = "idle"
    /\ \E p \in {q \in pending : q.h = "delete"}, ok \in BOOLEAN :
        IF ~ok
        THEN /\ pending' = pending \ {p}
             /\ last' = Outcome("delete", [channel |-> p.channel], "HTTPException", <<>>)
             /\ UNCHANGED <<last_dump, deleted, schema, holodex>>
        ELSE /\ deleted' = [deleted EXCEPT ![p.msg] = @ + 1]
             /\ IF last_dump_get(p.channel) = {}
                THEN /\ pending' = pending \ {p}
                     /\ last' = Outcome("delete", [channel |-> p.channel], "none", <<>>)
                     /\ UNCHANGED last_dump
                ELSE \E msg \in last_dump_get(p.channel) :
                        /\ pop(p.channel, msg)
                        /\ pending' = (pending \ {p}) \cup {[p EXCEPT !.msg = msg]}
                        /\ UNCHANGED last
    /\ UNCHANGED <<table, live, ups, downs, assigned_table_names, instances, pd, pd_sql, now,
                   selects, psd, psd_sql, wrote, attempt, private, schema, holodex>>

NextLastDump ==
    \/ DumpSend
    \/ DeleteBegin
    \/ DeleteResume
    \/ Return

SpecLastDump == Init /\ [][NextLastDump]_vars

\* The delete commands suspended in a channel.
Deleting(chn) == {p \in pending : p.h = "delete" /\ p.channel = chn}

----------------------------------------------------------------------------
(* Opening the tag store over a database file that exists already             *)
(* (tags.py:12-43).  A row of a table without the column hierarchy is a       *)
(* record without that field.                                                 *)

CURRENT_VERSION == 2

\* The database files that a run of the bot may find: none, the table of a
\* version that had no hierarchy column (user_version not set, or 1), and the
\* table of this version (before user_version was committed, or after).
PriorSchemas ==
    {[exists |-> FALSE, hierarchy |-> FALSE, user_version |-> 0, con |-> FALSE],
     [exists |-> TRUE, hierarchy |-> FALSE, user_version |-> 0, con |-> FALSE],
     [exists |-> TRUE, hierarchy |-> FALSE, user_version |-> 1, con |-> FALSE],
     [exists |-> TRUE, hierarchy |-> TRUE, user_version |-> 0, con |-> FALSE],
     [exists |-> TRUE, hierarchy |-> TRUE, user_version |-> CURRENT_VERSION, con |-> FALSE]}

OldRow(msg_id, text) ==
    [msg_id |-> msg_id, guild |-> 1, timestamp_ |-> msg_id, message |-> text, votes |-> 0,
     author |-> 1, hidden |-> FALSE]

\* ADD COLUMN hierarchy INT DEFAULT 0
AddColumn(r) ==
    [msg_id |-> r.msg_id, guild |-> r.guild, timestamp_ |-> r.timestamp_,
     message |-> r.message, votes |-> r.votes, author |-> r.author, hidden |-> r.hidden,
     hierarchy |-> 0]

\* The rows that a file of the given schema may hold: per message none or one.
PriorRows(s) ==
    IF ~s.exists THEN {{}}
    ELSE {{IF s.hierarchy THEN AddColumn(OldRow(m, f[m])) ELSE OldRow(m, f[m]) :
             m \in {i \in MsgIds : f[i] # "none"}} :
          f \in [MsgIds -> Texts \cup {"none"}]}

\* TagDatabase._create_table; ret lists the ALTER statements executed.
create_table ==
    LET created == [schema EXCEPT !.exists = TRUE,
                                  !.hierarchy = IF schema.exists THEN @ ELSE TRUE]
        version == schema.user_version
        args == [prior |-> schema]
    IN  IF version # 0 /\ version < CURRENT_VERSION
        THEN IF created.hierarchy
             THEN /\ schema' = [created EXCEPT !.con = FALSE]
                  /\ table' = table
                  /\ last' = Outcome("open", args, "OperationalError", <<>>)
             ELSE /\ schema' = [created EXCEPT !.hierarchy = TRUE, !.con = TRUE,
                                               !.user_version = CURRENT_VERSION]
                  /\ table' = {AddColumn(r) : r \in table}
                  /\ last' = Outcome("open", args, "none", <<"ALTER">>)
        ELSE /\ schema' = [created EXCEPT !.con = TRUE, !.user_version = CURRENT_VERSION]
             /\ table' = table
             /\ last' = Outcome("open", args, "none", <<>>)

\* TagDatabase(database_name)
OpenDatabase ==
    /\ last.op = "idle"
    /\ create_table
    /\ UNCHANGED <<live, ups, downs, assigned_table_names, instances, pd, pd_sql, now,
                   selects, psd, psd_sql, wrote, attempt, pending, private, last_dump,
                   deleted, holodex>>

\* TagDatabase.tag on the opened store: the INSERT gives eight values, which a
\* table without the column hierarchy refuses.
TagOpened ==
    /\ last.op = "idle"
    /\ schema.con
    /\ \E msg_id \in MsgIds, text \in Texts :
        IF schema.hierarchy
        THEN tag(msg_id, 1, Whole(msg_id), text, 1, FALSE, 0)
        ELSE /\ table' = table
             /\ last' = Outcome("tag", [msg_id |-> msg_id], "OperationalError", <<>>)
    /\ UNCHANGED <<live, ups, downs, cached>>

InitSchema ==
    /\ schema \in PriorSchemas
    /\ table \in PriorRows(schema)
    /\ last = Idle
    /\ live = {}
    /\ ups = [i \in MsgIds |-> 0]
    /\ downs = [i \in MsgIds |-> 0]
    /\ assigned_table_names = {}
    /\ instances = {}
    /\ pd = NoInstance
    /\ pd_sql = {}
    /\ now = 0
    /\ selects = 0
    /\ psd = NoInstance
    /\ psd_sql = NoRows
    /\ wrote = NoRows
    /\ attempt = NoAttempt
    /\ pending = {}
    /\ private = {}
    /\ last_dump = <<>>
    /\ deleted = <<>>
    /\ holodex = [sem |-> 1, waiters |-> <<>>, backoffs |-> 0, cooldowns |-> 0, returned |-> <<>>]

NextSchema ==
    \/ OpenDatabase
    \/ TagOpened
    \/ Return

SpecSchema == InitSchema /\ [][NextSchema]_vars

\* C39: whatever file the tag store is opened over, the opening succeeds and
\* leaves the table tags with the column hierarchy and user_version 2, every
\* row having a hierarchy; opening a file that is current executes no ALTER.
C39_Migrated ==
    last.op = "open" =>
        /\ last.err = "none"
        /\ schema = [exists |-> TRUE, hierarchy |-> TRUE, user_version |-> CURRENT_VERSION,
                     con |-> TRUE]
        /\ \A r \in table : "hierarchy" \in DOMAIN r
        /\ (last.args.prior.hierarchy /\ last.args.prior.user_version = CURRENT_VERSION)
              => last.ret = <<>>

\* The same over the files with no table, with the column, or with user_version 1.
C39_MigratedVersioned ==
    (last.op = "open"
       /\ (last.args.prior.exists =>
             last.args.prior.hierarchy \/ last.args.prior.user_version = 1)) =>
        /\ last.err = "none"
        /\ schema = [exists |-> TRUE, hierarchy |-> TRUE, user_version |-> CURRENT_VERSION,
                     con |-> TRUE]
        /\ \A r \in table : "hierarchy" \in DOMAIN r
        /\ (last.args.prior.hierarchy /\ last.args.prior.user_version = CURRENT_VERSION)
              => last.ret = <<>>


----------------------------------------------------------------------------
(* streams.holodex_req (streams.py:31-81): the calls share one                *)
(* asyncio.Semaphore(1), whose release hands the slot to the waiter that has  *)
(* waited longest, and one ExpBackoff.  A call is suspended at the semaphore  *)
(* ("acquire"), at the two sleeps before a request ("sleep"), at session.get  *)
(* ("get") or at response.json() ("json").  _current_wait is 0 before the     *)
(* first backoff and 2^(backoffs-1) * 0.9^cooldowns after it; how long the    *)
(* sleeps last is left open.                                                  *)

\* holodex_req is called at most MaxCalls times
MaxCalls == 3
\* the provider answers at most MaxBackoffs requests with a status that is retried
MaxBackoffs == 2

Calls == 1 .. MaxCalls
Statuses == {200, 404, 403, 429, 500}

HolodexCalls == {p \in pending : p.h = "holodex_req"}
InSlot == {p \in HolodexCalls : p.at \in {"sleep", "get", "json"}}

\* response.status in (403, 429) or (response.status >= 500 and not retry_after)
Retried(status, retry_after) ==
    status \in {403, 429} \/ (status >= 500 /\ ~retry_after)

holodexOnly ==
    <<table, last, live, ups, downs, assigned_table_names, instances, pd, pd_sql, now,
      selects, psd, psd_sql, wrote, attempt, private, last_dump, deleted, schema>>

\* A call up to its first await: `async with __sem[0]` takes the slot when it
\* is free and nobody waits for it, and waits for it otherwise.
HolodexBegin ==
    /\ \E c \in Calls \ ({p.call : p \in HolodexCalls} \cup DOMAIN holodex.returned) :
        IF holodex.sem > 0 /\ holodex.waiters = <<>>
        THEN /\ holodex' = [holodex EXCEPT !.sem = @ - 1]
             /\ pending' = pending \cup {[h |-> "holodex_req", call |-> c, at |-> "sleep",
                                          status |-> 0, retry_after |-> FALSE]}
        ELSE /\ holodex' = [holodex EXCEPT !.waiters = Append(@, c)]
             /\ pending' = pending \cup {[h |-> "holodex_req", call |-> c, at |-> "acquire",
                                          status |-> 0, retry_after |-> FALSE]}
    /\ UNCHANGED holodexOnly

\* The sleeps are over and the request is sent.
HolodexRequest ==
    /\ \E p \in {q \in HolodexCalls : q.at = "sleep"} :
        pending' = (pending \ {p}) \cup {[p EXCEPT !.at = "get"]}
    /\ UNCHANGED holodex
    /\ UNCHANGED holodexOnly

HolodexAnswer_server ==
    /\ \E p \in {q \in HolodexCalls : q.at = "get"}, status \in Statuses,
          retry_after \in BOOLEAN :
        IF status \in {403, 429} \/ (status >= 500 /\ retry_after)
        THEN /\ holodex.backoffs < MaxBackoffs
             /\ holodex' = [holodex EXCEPT !.backoffs = @ + 1]
             /\ pending' = (pending \ {p}) \cup
                  {[p EXCEPT !.at = "sleep", !.status = status, !.retry_after = retry_after]}
        ELSE /\ holodex' = [holodex EXCEPT
                               !.cooldowns = IF holodex.backoffs = 0 THEN @ ELSE @ + 1]
             /\ pending' = (pending \ {p}) \cup
                  {[p EXCEPT !.at = "json", !.status = status, !.retry_after = retry_after]}
    /\ UNCHANGED holodexOnly

\* The response has come: backoff and another turn of the loop, or cooldown
\* and the body is read.
HolodexAnswer ==
    /\ \E p \in {q \in HolodexCalls : q.at = "get"}, status \in Statuses,
          retry_after \in BOOLEAN :
        IF status \in {403, 429} \/ (status >= 500 /\ ~retry_after)
        THEN /\ holodex.backoffs < MaxBackoffs
             /\ holodex' = [holodex EXCEPT !.backoffs = @ + 1]
             /\ pending' = (pending \ {p}) \cup
                  {[p EXCEPT !.at = "sleep", !.status = status, !.retry_after = retry_after]}
        ELSE /\ holodex' = [holodex EXCEPT
                               !.cooldowns = IF holodex.backoffs = 0 THEN @ ELSE @ + 1]
             /\ pending' = (pending \ {p}) \cup
                  {[p EXCEPT !.at = "json", !.status = status, !.retry_after = retry_after]}
    /\ UNCHANGED holodexOnly

\* The body is returned and the `async with` releases the semaphore, which
\* wakes the first waiter with the slot.
HolodexReturn ==
    /\ \E p \in {q \in HolodexCalls : q.at = "json"} :
        IF holodex.waiters = <<>>
        THEN /\ holodex' = [holodex EXCEPT !.sem = @ + 1,
                                           !.returned = (p.call :> p.status) @@ @]
             /\ pending' = pending \ {p}
        ELSE /\ holodex' = [holodex EXCEPT !.waiters = Tail(@),
                                           !.returned = (p.call :> p.status) @@ @]
             /\ pending' = {IF q.h = "holodex_req" /\ q.call = Head(holodex.waiters)
                            THEN [q EXCEPT !.at = "sleep"] ELSE q : q \in pending \ {p}}
    /\ UNCHANGED holodexOnly

NextHolodex ==
    \/ HolodexBegin
    \/ HolodexRequest
    \/ HolodexAnswer
    \/ HolodexReturn

SpecHolodex == Init /\ [][NextHolodex]_vars

\* The sleeps end, the provider answers each caller with a status that is
\* not retried at some time, and the body of such an answer is read.
SpecHolodexFair ==
    /\ SpecHolodex
    /\ WF_vars(HolodexRequest)
    /\ SF_vars(HolodexAnswer /\ \E p \in InSlot' : p.at = "json")
    /\ WF_vars(HolodexReturn)

\* C40: at most one call is past the semaphore, so at most one request is in
\* flight; an answer 403, 429, or 500 and above without Retry-After makes a
\* backoff and puts the same call, still the one past the semaphore, before
\* its next request; any other answer is what the call returns, and the
\* return gives the slot up or hands it to the first waiter; and every call
\* that has begun returns.
C40_Serialized ==
    /\ [](Cardinality(InSlot) <= 1 /\ (InSlot # {} => holodex.sem = 0))
    /\ [][\A p \in InSlot : (p.at = "get" /\ p \notin pending') =>
            \E q \in InSlot' :
                /\ q.call = p.call
                /\ IF Retried(q.status, q.retry_after)
                   THEN /\ q.at = "sleep"
                        /\ holodex'.backoffs = holodex.backoffs + 1
                        /\ holodex'.sem = 0 /\ holodex'.waiters = holodex.waiters
                   ELSE /\ q.at = "json"
                        /\ holodex'.backoffs = holodex.backoffs]_vars
    /\ [][\A p \in InSlot : (p.at = "json" /\ p \notin pending') =>
            /\ holodex'.returned[p.call] = p.status
            /\ ~Retried(p.status, p.retry_after)
            /\ IF holodex.waiters = <<>>
               THEN holodex'.sem = 1 /\ InSlot' = {}
               ELSE /\ holodex'.waiters = Tail(holodex.waiters)
                    /\ {q.call : q \in InSlot'} = {Head(holodex.waiters)}]_vars
    /\ \A c \in Calls :
          (\E p \in HolodexCalls : p.call = c) ~> (c \in DOMAIN holodex.returned)

\* A call has returned after a backoff while another call waits for the slot
\* that a third call holds.
C40_Witness ==
    /\ DOMAIN holodex.returned # {}
    /\ holodex.backoffs >= 1
    /\ holodex.waiters # <<>>
    /\ InSlot # {}

====
